---- MODULE Spec2Model ----
(***************************************************************************)
(* Model of the navy-project-backend ingestion pipeline: the parse-email   *)
(* handler, the canonical record store with its unique indexes, the        *)
(* fingerprint ledger, child splitting, the fetch queue with its handler   *)
(* and the retrying scraper.                                               *)
(***************************************************************************)
EXTENDS Integers, Sequences, FiniteSets, TLC

VARIABLES
  opps,        \* opportunities table: id -> row
  ledger,      \* opportunity_fingerprints table: set of rows
  nextId,      \* next primary key handed out by the record store
  clock,       \* createdAt source of the ledger rows
  body,        \* emailMessageId -> the items the template extracts from it
  handlers,    \* parse-email handler runs (position and locals)
  started,     \* number of handler / split / fetch runs started so far
  createdLog,  \* history: every opportunity row ever inserted
  splits,      \* createChildrenFromScraping runs (position and locals)
  queue,       \* Bull 'scraping' queue: job id -> job
  nextJob,     \* next Bull job id
  fh,          \* the fetch handler run of the single worker
  settings,    \* scraping_settings: tenant -> row
  ledgerLog,   \* history of direct ledger calls: last check and first records
  direct,      \* the run of a scraping endpoint called outside the queue
  alerts,      \* cancellation notifications emitted: record id -> count
  probe        \* argument and result of the last call of a pure operation

vars == <<opps, ledger, nextId, clock, body, handlers, started, createdLog,
          splits, queue, nextJob, fh, settings, ledgerLog, direct, alerts,
          probe>>

----------------------------------------------------------------------------
(* Bounds of the model *)

MaxRuns == 2        \* handler runs started in one behaviour
MaxSplitRuns == 2   \* createChildrenFromScraping invocations in one behaviour
MaxJobs == 3        \* fetch jobs ever added to the queue
MaxLedgerOps == 4   \* direct ledger calls in one behaviour
MaxRetriesCap == 3  \* largest maxRetries the settings take in the model
MaxDirect == 2      \* calls of a scraping endpoint in one behaviour
MaxLaneJobs == 2    \* jobs queued while the endpoint is called
MaxTemplateDomains == 1  \* entries of a template's domain list
MaxBodyLen == 4     \* characters of an email body that is split
MaxWorkflowClock == 7  \* clock value after which no workflow call is made

Tenants == {"t1", "t2"}
Msgs == {"m1", "m2"}
NullId == 0
NullQuantity == 0

IdleFetch ==
  [pc |-> "idle", job |-> 0, userId |-> "t1", oppId |-> NullId, attempt |-> 0,
   maxRetries |-> 0, status |-> "none", success |-> FALSE, doc |-> <<>>,
   snapshot |-> {}, fetches |-> 0, last |-> "none", retryableOnly |-> TRUE,
   limits |-> {}, errorPageAt |-> 0, pending |-> {}, removed |-> {}]

DefaultSettings ==
  [maxRetries |-> 3, autoScrapeOnSync |-> FALSE, minDelayMs |-> 3000,
   maxDelayMs |-> 7000]

\* a DomainConfig as scrapeOpportunity reads it
Policies == [enabled : BOOLEAN, requiresAuth : BOOLEAN, credentials : BOOLEAN]

OpenPolicy == [enabled |-> TRUE, requiresAuth |-> FALSE, credentials |-> FALSE]

IdleDirect ==
  [pc |-> "idle", kind |-> "none", userId |-> "t1", oppId |-> NullId,
   attempt |-> 0, maxRetries |-> 0, status |-> "none", fetches |-> 0,
   runs |-> 0, resolved |-> FALSE, policy |-> OpenPolicy, flagged |-> FALSE]

NoProbe == [kind |-> "none"]

SplitIds == 1..MaxSplitRuns

IdleSplit ==
  [pc |-> "idle", parentId |-> NullId, doc |-> <<>>, idx |-> 0, created |-> 0,
   parent |-> NullId, child |-> NullId, invokedCount |-> 0, afterCrash |-> FALSE,
   entered |-> FALSE, wrote |-> 0]

\* a run that returned, threw or stopped: its locals are gone
Ended(sr, pc) ==
  [sr EXCEPT !.pc = pc, !.idx = 0, !.parent = NullId, !.child = NullId]

----------------------------------------------------------------------------
(* Extracted items of an email (ParsedOpportunity after mapExtractedFields) *)

\* the text columns the scraper can enrich; quantity is the integer one
EnrichedFields ==
  {"unit", "partNumber", "manufacturer", "description", "nsn", "condition"}

\* "" stands for a field without value (null / undefined)
NoValues == [f \in EnrichedFields |-> ""]

AllValues(v) == [f \in EnrichedFields |-> v]

\* an item with mapped values: the text columns, quantity as the extracted
\* text, site, closing date ("", "past" or "future") and delivery date
RichItem(fp, sol, url, enriched, quantity, site, closing, delivery, data) ==
  [fingerprint |-> fp, solicitationNumber |-> sol, sourceUrl |-> url,
   transPurpose |-> "", quoteType |-> "", blank |-> FALSE,
   expired |-> (closing = "past"), enriched |-> enriched,
   quantity |-> quantity, site |-> site, closingDate |-> closing,
   deliveryDate |-> delivery, data |-> data]

Item(fp, sol, url) == RichItem(fp, sol, url, NoValues, "", "", "", "", "d0")

CancelItem(fp, sol) ==
  [Item(fp, sol, FALSE) EXCEPT !.transPurpose = "cancellation",
                               !.quoteType = "amendment"]

BlankItem == [Item("f0", "", FALSE) EXCEPT !.blank = TRUE]

Bodies ==
  { <<Item("f1", "s1", TRUE)>>,
    <<Item("f1", "", FALSE), Item("f2", "", TRUE)>>,
    <<Item("f1", "s2", TRUE), BlankItem>>,
    <<CancelItem("f2", "s1")>> }

IsCancellation(it) ==
  it.transPurpose = "cancellation" /\ it.quoteType = "amendment"

----------------------------------------------------------------------------
(* Record store: opportunities table *)

NewOpp(id, user, msg, fp, sol, parent, url, expired, status) ==
  [id |-> id, userId |-> user, emailMessageId |-> msg, fingerprint |-> fp,
   solicitationNumber |-> sol, parentOpportunityId |-> parent,
   childrenCount |-> 0, deleted |-> FALSE, status |-> status,
   scrapingStatus |-> "null", sourceUrl |-> url, expired |-> expired,
   enriched |-> NoValues, quantity |-> NullQuantity, site |-> "",
   deliveryDate |-> "", extractedData |-> "d0"]

\* UNIQUE INDEX opportunities_user_id_email_message_id_fingerprint_key
OppUniqueViolation_none(user, msg, fp) == FALSE

OppUniqueViolation(user, msg, fp) ==
  \E id \in DOMAIN opps :
    /\ opps[id].userId = user
    /\ opps[id].emailMessageId = msg
    /\ opps[id].fingerprint = fp

InsertOpp(row) == (row.id :> row) @@ opps

LogCreate(row, via) ==
  createdLog \cup {[id |-> row.id, userId |-> row.userId,
                    fingerprint |-> row.fingerprint,
                    parent |-> row.parentOpportunityId, via |-> via]}

----------------------------------------------------------------------------
(* Fingerprint ledger: opportunity_fingerprints table *)

Actions == {"deleted", "hidden", "not_interested"}

LedgerRows(user, fp) ==
  {r \in ledger : r.userId = user /\ r.fingerprint = fp}

NotFound == [exists |-> FALSE, action |-> "none", opportunityId |-> NullId]

checkFingerprint_never(user, fp) == NotFound

checkFingerprint(user, fp) ==
  LET rows == LedgerRows(user, fp) IN
  IF rows = {} THEN NotFound
  ELSE LET latest == CHOOSE r \in rows :
                       \A q \in rows : q.createdAt <= r.createdAt
       IN [exists |-> TRUE, action |-> latest.action,
           opportunityId |-> latest.opportunityId]

checkMultipleFingerprints(user, fps) ==
  [fp \in fps |->
     IF LedgerRows(user, fp) = {} THEN NotFound
     ELSE LET r == CHOOSE r \in LedgerRows(user, fp) : TRUE
          IN [exists |-> TRUE, action |-> r.action,
              opportunityId |-> r.opportunityId]]

\* UNIQUE INDEX opportunity_fingerprints_user_id_fingerprint_key
LedgerUniqueViolation(user, fp) == LedgerRows(user, fp) # {}

FingerprintRow_noId(user, oppId, fp) ==
  [userId |-> user, fingerprint |-> fp, opportunityId |-> NullId,
   action |-> "deleted", createdAt |-> clock]

FingerprintRow(user, oppId, fp) ==
  [userId |-> user, fingerprint |-> fp, opportunityId |-> oppId,
   action |-> "deleted", createdAt |-> clock]

\* the ledger after recordFingerprint succeeded
recordFingerprint(user, oppId, fp) ==
  ledger \cup {FingerprintRow(user, oppId, fp)}

updateFingerprintAction(user, oppId, action) ==
  {IF r.userId = user /\ r.opportunityId = oppId
     THEN [r EXCEPT !.action = action] ELSE r : r \in ledger}

----------------------------------------------------------------------------
(* Queue: adding a fetch job *)

NewJob(id, oppId, user) ==
  [id |-> id, opportunityId |-> oppId, userId |-> user, state |-> "waiting",
   attemptsMade |-> 0]

addScrapingJob(oppId, user) == (nextJob :> NewJob(nextJob, oppId, user)) @@ queue

----------------------------------------------------------------------------
(* Parse-email handler: OpportunityProcessorQueue.handleOpportunityProcessing *)

Handlers == {1, 2}

IdleHandler ==
  [pc |-> "idle", userId |-> "t1", msg |-> "m1", idx |-> 0,
   scrapingEnabled |-> FALSE, target |-> NullId, wasScraped |-> FALSE,
   created |-> 0, updated |-> 0, duplicates |-> 0, errors |-> 0,
   cancellations |-> 0]

Running(h) == handlers[h].pc \notin {"idle", "done"}

CurItem(h) == body[handlers[h].msg][handlers[h].idx]

\* Number(text) of the quantity texts the emails of the model carry
Number(text) == IF text = "7" THEN 7 ELSE IF text = "12" THEN 12 ELSE NullQuantity

\* a mapped field overwrites the column only when it has a value
Mapped(new, old) == IF new # "" THEN new ELSE old

GuardEnriched_off(wasScraped) == TRUE

\* the enriched columns are written only when the record was not scraped
\* (lines 232-240)
GuardEnriched(wasScraped) == ~wasScraped

\* updateData applied to the row (lines 208-245)
UpdatedRow(row, it, wasScraped) ==
  [row EXCEPT
     !.extractedData = it.data,
     !.solicitationNumber = Mapped(it.solicitationNumber, @),
     !.site = Mapped(it.site, @),
     !.sourceUrl = IF it.sourceUrl THEN TRUE ELSE @,
     !.expired = IF it.closingDate # "" THEN it.closingDate = "past" ELSE @,
     !.deliveryDate = Mapped(it.deliveryDate, @),
     !.enriched = IF GuardEnriched(wasScraped)
                    THEN [f \in EnrichedFields |-> Mapped(it.enriched[f], @[f])]
                    ELSE @,
     !.quantity = IF GuardEnriched(wasScraped) /\ it.quantity # ""
                    THEN Number(it.quantity) ELSE @]

\* alertsService.createAlert of type cancellation and its emission
EmitCancellation(id) ==
  [k \in DOMAIN alerts \cup {id} |->
     IF k = id THEN (IF id \in DOMAIN alerts THEN alerts[id] + 1 ELSE 1)
     ELSE alerts[k]]

\* continue with the next item of the loop
NextItem(hr) == [hr EXCEPT !.pc = "item", !.idx = @ + 1, !.target = NullId]

ItemError(hr) == NextItem([hr EXCEPT !.errors = @ + 1])

\* rows matched by the findFirst of the handler (lines 196-204)
ExistingMatches(user, msg, sol) ==
  {id \in DOMAIN opps :
     /\ opps[id].userId = user
     /\ opps[id].emailMessageId = msg
     /\ ~opps[id].deleted
     /\ (sol # "" => opps[id].solicitationNumber = sol)}

\* rows matched by the findFirst of handleCancellation (lines 365-371)
CancellationMatches(sol) ==
  {id \in DOMAIN opps :
     /\ opps[id].solicitationNumber = sol
     /\ ~opps[id].deleted
     /\ opps[id].status # "cancelada"}

ParseUnchanged == UNCHANGED <<body, splits, fh, settings, ledgerLog, direct, probe>>

\* the job is taken; a job without templateId returns at once (lines 64-76)
StartHandlerWith(h, t, m, tpl, se, concurrent) ==
  /\ ~Running(h)
  /\ concurrent \/ \A g \in Handlers : ~Running(g)
  /\ started < MaxRuns
  /\ started' = started + 1
  /\ handlers' = [handlers EXCEPT ![h] =
       IF tpl
         THEN [IdleHandler EXCEPT !.pc = "item", !.userId = t, !.msg = m,
                                  !.idx = 1, !.scrapingEnabled = se]
         ELSE [IdleHandler EXCEPT !.pc = "done", !.userId = t, !.msg = m,
                                  !.errors = 1]]
  /\ UNCHANGED <<opps, ledger, nextId, clock, createdLog, queue, nextJob>>
  /\ UNCHANGED alerts
  /\ ParseUnchanged

\* top of the per-item loop: blank skip, cancellation lookup or findFirst
HandlerItem(h) ==
  LET hr == handlers[h] IN
  /\ hr.pc = "item"
  /\ IF hr.idx > Len(body[hr.msg])
       THEN handlers' = [handlers EXCEPT ![h] = [hr EXCEPT !.pc = "done"]]
     ELSE IF CurItem(h).blank
       THEN handlers' = [handlers EXCEPT ![h] = NextItem(hr)]
     ELSE IF IsCancellation(CurItem(h)) /\ CurItem(h).solicitationNumber # ""
       THEN LET m == CancellationMatches(CurItem(h).solicitationNumber) IN
            IF m = {}
              THEN handlers' = [handlers EXCEPT ![h] =
                                  [hr EXCEPT !.pc = "cancel_fp"]]
              ELSE \E id \in m :
                     handlers' = [handlers EXCEPT ![h] =
                        [hr EXCEPT !.pc = "cancel_update", !.target = id]]
     ELSE LET m == ExistingMatches(hr.userId, hr.msg,
                                   CurItem(h).solicitationNumber) IN
          IF m = {}
            THEN handlers' = [handlers EXCEPT ![h] = [hr EXCEPT !.pc = "check"]]
            ELSE \E id \in m :
                   handlers' = [handlers EXCEPT ![h] =
                      [hr EXCEPT !.pc = "update", !.target = id,
                         !.wasScraped = (opps[id].scrapingStatus = "success")]]
  /\ UNCHANGED <<opps, ledger, nextId, clock, started, createdLog, queue, nextJob>>
  /\ UNCHANGED alerts
  /\ ParseUnchanged

\* handleCancellation: the found record becomes cancelada (lines 385-393)
HandlerCancelUpdate(h) ==
  LET hr == handlers[h] IN
  /\ hr.pc = "cancel_update"
  /\ IF hr.target \in DOMAIN opps
       THEN /\ opps' = [opps EXCEPT ![hr.target].status = "cancelada"]
            /\ alerts' = EmitCancellation(hr.target)
            /\ handlers' = [handlers EXCEPT ![h] = [hr EXCEPT !.pc = "cancel_fp"]]
       ELSE /\ opps' = opps
            /\ alerts' = alerts
            /\ handlers' = [handlers EXCEPT ![h] = ItemError(hr)]
  /\ UNCHANGED <<ledger, nextId, clock, started, createdLog, queue, nextJob>>
  /\ ParseUnchanged

\* the cancellation's fingerprint is recorded, a failure is ignored (178-186)
HandlerCancelFingerprint(h) ==
  LET hr == handlers[h] IN
  /\ hr.pc = "cancel_fp"
  /\ IF LedgerUniqueViolation(hr.userId, CurItem(h).fingerprint)
       THEN UNCHANGED <<ledger, clock>>
       ELSE /\ ledger' = recordFingerprint(hr.userId, NullId,
                                           CurItem(h).fingerprint)
            /\ clock' = clock + 1
  /\ handlers' = [handlers EXCEPT ![h] =
                    NextItem([hr EXCEPT !.cancellations = @ + 1])]
  /\ UNCHANGED <<opps, nextId, started, createdLog, queue, nextJob>>
  /\ UNCHANGED alerts
  /\ ParseUnchanged

\* the existing record is refreshed from the email (lines 206-260)
HandlerUpdate(h) ==
  LET hr == handlers[h]
      sol == CurItem(h).solicitationNumber IN
  /\ hr.pc = "update"
  /\ IF hr.target \in DOMAIN opps
       THEN /\ opps' = [opps EXCEPT ![hr.target] =
                 UpdatedRow(@, CurItem(h), hr.wasScraped)]
            /\ handlers' = [handlers EXCEPT ![h] =
                              NextItem([hr EXCEPT !.updated = @ + 1])]
       ELSE /\ opps' = opps
            /\ handlers' = [handlers EXCEPT ![h] = ItemError(hr)]
  /\ UNCHANGED <<ledger, nextId, clock, started, createdLog, queue, nextJob>>
  /\ UNCHANGED alerts
  /\ ParseUnchanged

\* the handler's own ledger check (lines 263-275)
HandlerCheck(h) ==
  LET hr == handlers[h] IN
  /\ hr.pc = "check"
  /\ handlers' = [handlers EXCEPT ![h] =
       IF checkFingerprint(hr.userId, CurItem(h).fingerprint).exists
         THEN NextItem([hr EXCEPT !.duplicates = @ + 1])
         ELSE [hr EXCEPT !.pc = "create_check"]]
  /\ UNCHANGED <<opps, ledger, nextId, clock, started, createdLog, queue, nextJob>>
  /\ UNCHANGED alerts
  /\ ParseUnchanged

\* OpportunitiesService.create: ledger check, ConflictException (lines 65-78)
CreateCheck(h) ==
  LET hr == handlers[h] IN
  /\ hr.pc = "create_check"
  /\ handlers' = [handlers EXCEPT ![h] =
       IF checkFingerprint(hr.userId, CurItem(h).fingerprint).exists
         THEN ItemError(hr)
         ELSE [hr EXCEPT !.pc = "create_opp"]]
  /\ UNCHANGED <<opps, ledger, nextId, clock, started, createdLog, queue, nextJob>>
  /\ UNCHANGED alerts
  /\ ParseUnchanged

\* OpportunitiesService.create: the row is inserted (lines 88-119)
CreateOpp(h) ==
  LET hr == handlers[h]
      it == CurItem(h)
      row == [NewOpp(nextId, hr.userId, hr.msg, it.fingerprint,
                     it.solicitationNumber, NullId, it.sourceUrl, it.expired,
                     "nao_analisada")
                EXCEPT !.enriched = it.enriched,
                       !.quantity = IF it.quantity # ""
                                      THEN Number(it.quantity) ELSE NullQuantity,
                       !.site = it.site, !.deliveryDate = it.deliveryDate,
                       !.extractedData = it.data] IN
  /\ hr.pc = "create_opp"
  /\ IF OppUniqueViolation(hr.userId, hr.msg, it.fingerprint)
       THEN /\ handlers' = [handlers EXCEPT ![h] = ItemError(hr)]
            /\ UNCHANGED <<opps, nextId, createdLog>>
       ELSE /\ opps' = InsertOpp(row)
            /\ nextId' = nextId + 1
            /\ createdLog' = LogCreate(row, "email")
            /\ handlers' = [handlers EXCEPT ![h] =
                              [hr EXCEPT !.pc = "create_record",
                                         !.target = row.id]]
  /\ UNCHANGED <<ledger, clock, started, queue, nextJob>>
  /\ UNCHANGED alerts
  /\ ParseUnchanged

\* OpportunitiesService.create: recordFingerprint (lines 121-125), then the
\* handler counts the creation (lines 309-318)
CreateRecord(h) ==
  LET hr == handlers[h]
      it == CurItem(h) IN
  /\ hr.pc = "create_record"
  /\ IF LedgerUniqueViolation(hr.userId, it.fingerprint)
       THEN /\ handlers' = [handlers EXCEPT ![h] = ItemError(hr)]
            /\ UNCHANGED <<ledger, clock>>
       ELSE /\ ledger' = recordFingerprint(hr.userId, hr.target, it.fingerprint)
            /\ clock' = clock + 1
            /\ handlers' = [handlers EXCEPT ![h] =
                 IF hr.scrapingEnabled /\ it.sourceUrl /\ ~it.expired
                   THEN [hr EXCEPT !.pc = "enqueue", !.created = @ + 1]
                   ELSE NextItem([hr EXCEPT !.created = @ + 1])]
  /\ UNCHANGED <<opps, nextId, started, createdLog, queue, nextJob>>
  /\ UNCHANGED alerts
  /\ ParseUnchanged

\* the fetch job of the new record is enqueued (lines 318-335)
HandlerEnqueue(h) ==
  LET hr == handlers[h] IN
  /\ hr.pc = "enqueue"
  /\ queue' = addScrapingJob(hr.target, hr.userId)
  /\ nextJob' = nextJob + 1
  /\ handlers' = [handlers EXCEPT ![h] = NextItem(hr)]
  /\ UNCHANGED <<opps, ledger, nextId, clock, started, createdLog>>
  /\ UNCHANGED alerts
  /\ ParseUnchanged

\* the worker stops after prisma.opportunity.create returned and before
\* recordFingerprint ran (between lines 119 and 121 of create); the job is
\* stalled and its message is delivered again by a later run
HandlerCrash(h) ==
  LET hr == handlers[h] IN
  /\ hr.pc = "create_record"
  /\ handlers' = [handlers EXCEPT ![h] = [hr EXCEPT !.pc = "stalled"]]
  /\ UNCHANGED <<opps, ledger, nextId, clock, started, createdLog, queue, nextJob>>
  /\ UNCHANGED alerts
  /\ ParseUnchanged

\* the stalled job is taken again: the handler starts over with the same
\* job data (lines 56-130)
HandlerRedeliver(h) ==
  LET hr == handlers[h] IN
  /\ hr.pc = "stalled"
  /\ handlers' = [handlers EXCEPT ![h] =
       [IdleHandler EXCEPT !.pc = "item", !.userId = hr.userId,
                           !.msg = hr.msg, !.idx = 1,
                           !.scrapingEnabled = hr.scrapingEnabled]]
  /\ UNCHANGED <<opps, ledger, nextId, clock, started, createdLog, queue, nextJob>>
  /\ UNCHANGED alerts
  /\ ParseUnchanged

HandlerStep(h) ==
  \/ HandlerItem(h)
  \/ HandlerCancelUpdate(h)
  \/ HandlerCancelFingerprint(h)
  \/ HandlerUpdate(h)
  \/ HandlerCheck(h)
  \/ CreateCheck(h)
  \/ CreateOpp(h)
  \/ CreateRecord(h)
  \/ HandlerEnqueue(h)

----------------------------------------------------------------------------
(* OpportunitiesService.softDelete / restore *)

softDelete(id, user) ==
  /\ id \in DOMAIN opps
  /\ opps[id].userId = user
  /\ ~opps[id].deleted
  /\ ledger' = updateFingerprintAction(user, id, "deleted")
  /\ opps' = [opps EXCEPT ![id].deleted = TRUE]
  /\ UNCHANGED <<nextId, clock, handlers, started, createdLog, queue, nextJob>>
  /\ UNCHANGED alerts
  /\ ParseUnchanged

restore(id, user) ==
  /\ id \in DOMAIN opps
  /\ opps[id].userId = user
  /\ opps[id].deleted
  /\ opps' = [opps EXCEPT ![id].deleted = FALSE]
  /\ UNCHANGED <<ledger, nextId, clock, handlers, started, createdLog, queue,
                 nextJob>>
  /\ UNCHANGED alerts
  /\ ParseUnchanged

\* OpportunitiesService.hardDelete: the ledger rows of the record are removed
\* and the record is deleted
removeFingerprintRecord(user, id) ==
  {r \in ledger : ~(r.userId = user /\ r.opportunityId = id)}

DeleteRows(ids) == [i \in DOMAIN opps \ ids |-> opps[i]]

\* the foreign key opportunities.parent_opportunity_id is ON DELETE CASCADE:
\* the children of a deleted record are deleted with it
Cascade(ids) ==
  ids \cup {c \in DOMAIN opps : opps[c].parentOpportunityId \in ids}

SetNull(rows, ids) ==
  {IF r.opportunityId \in ids THEN [r EXCEPT !.opportunityId = NullId] ELSE r :
     r \in rows}

hardDelete(id, user) ==
  /\ id \in DOMAIN opps
  /\ opps[id].userId = user
  /\ ~opps[id].deleted
  /\ ledger' = SetNull(removeFingerprintRecord(user, id), Cascade({id}))
  /\ opps' = DeleteRows(Cascade({id}))
  /\ UNCHANGED <<nextId, clock, handlers, started, createdLog, queue, nextJob>>
  /\ UNCHANGED alerts
  /\ ParseUnchanged

\* the foreign key opportunity_fingerprints.opportunity_id is ON DELETE SET
\* NULL: the ledger rows of deleted records lose their record id
OnDeleteSetNull(ids) == SetNull(ledger, ids)

\* OpportunitiesService.cleanupOldDeleted: deleteMany of the tenant's
\* soft-deleted records older than the cutoff, here the records in ids
cleanupOldDeleted(user, ids) ==
  /\ ids # {}
  /\ \A i \in ids : opps[i].userId = user /\ opps[i].deleted
  /\ opps' = DeleteRows(Cascade(ids))
  /\ ledger' = OnDeleteSetNull(Cascade(ids))
  /\ UNCHANGED <<nextId, clock, handlers, started, createdLog, queue, nextJob>>
  /\ UNCHANGED alerts
  /\ ParseUnchanged

----------------------------------------------------------------------------
(* Initial states *)

InitBase ==
  /\ opps = <<>>
  /\ ledger = {}
  /\ nextId = 1
  /\ clock = 1
  /\ handlers = [h \in Handlers |-> IdleHandler]
  /\ started = 0
  /\ createdLog = {}
  /\ splits = [r \in SplitIds |-> IdleSplit]
  /\ queue = <<>>
  /\ nextJob = 1
  /\ fh = IdleFetch
  /\ settings = [t \in Tenants |-> DefaultSettings]
  /\ ledgerLog = [ops |-> 0, recorded |-> {}, checks |-> {}]
  /\ direct = IdleDirect
  /\ alerts = <<>>

InitEmpty ==
  /\ InitBase
  /\ probe = NoProbe

InitParse ==
  /\ InitEmpty
  /\ body \in [Msgs -> Bodies]

----------------------------------------------------------------------------
(* Specification: parse-email handlers run one at a time *)

StartHandlerSeq ==
  \E t \in Tenants, m \in Msgs, tpl \in BOOLEAN, se \in BOOLEAN :
    StartHandlerWith(1, t, m, tpl, se, FALSE)

DeleteRestore ==
  \E id \in DOMAIN opps, t \in Tenants : softDelete(id, t) \/ restore(id, t)

NextParseSeq ==
  \/ StartHandlerSeq
  \/ HandlerStep(1)
  \/ DeleteRestore

SpecParseSeq == InitParse /\ [][NextParseSeq]_vars

(* Specification: emails are parsed while records are soft-deleted, restored
   and cleaned up *)

StartHandlerStore ==
  \E m \in Msgs, se \in BOOLEAN : StartHandlerWith(1, "t1", m, TRUE, se, FALSE)

Cleanup ==
  \E t \in Tenants, ids \in SUBSET DOMAIN opps : cleanupOldDeleted(t, ids)

NextStore ==
  \/ StartHandlerStore
  \/ HandlerStep(1)
  \/ DeleteRestore
  \/ Cleanup

SpecStore == InitParse /\ [][NextStore]_vars

(* Specification: a handler run can stop inside create and its message is
   delivered again *)

NextRedeliver ==
  \/ StartHandlerStore
  \/ HandlerStep(1)
  \/ HandlerCrash(1)
  \/ HandlerRedeliver(1)

SpecRedeliver == InitParse /\ [][NextRedeliver]_vars

(* Specification: two parse-email handlers of one tenant run concurrently *)

StartHandlerConc ==
  \E h \in Handlers, m \in Msgs, se \in BOOLEAN :
    StartHandlerWith(h, "t1", m, TRUE, se, TRUE)

NextParseConc ==
  \/ StartHandlerConc
  \/ \E h \in Handlers : HandlerStep(h)

SpecParseConc == InitParse /\ [][NextParseConc]_vars

----------------------------------------------------------------------------
(* Direct calls of the FingerprintingService *)

LedgerUnchanged ==
  UNCHANGED <<opps, nextId, body, handlers, started, createdLog, splits,
              queue, nextJob, fh, settings, direct, alerts, probe>>

\* recordFingerprint(t, r, f): the insert is rejected by the unique index
\* when (t, f) is present and by the foreign key when r is no record
LedgerRecord(t, r, f) ==
  /\ ledgerLog.ops < MaxLedgerOps
  /\ r \in DOMAIN opps
  /\ IF LedgerUniqueViolation(t, f)
       THEN /\ UNCHANGED <<ledger, clock>>
            /\ ledgerLog' = [ledgerLog EXCEPT !.ops = @ + 1]
       ELSE /\ ledger' = recordFingerprint(t, r, f)
            /\ clock' = clock + 1
            /\ ledgerLog' = [ledgerLog EXCEPT !.ops = @ + 1,
                 !.recorded = @ \cup {<<t, f, r>>}]
  /\ LedgerUnchanged

LedgerCheck(t, f) ==
  /\ ledgerLog.ops < MaxLedgerOps
  /\ ledgerLog' = [ledgerLog EXCEPT !.ops = @ + 1,
       !.checks = @ \cup {[userId |-> t, fingerprint |-> f,
                           result |-> checkFingerprint(t, f)]}]
  /\ UNCHANGED <<ledger, clock>>
  /\ LedgerUnchanged

LedgerCheckMany(t, fps) ==
  /\ ledgerLog.ops < MaxLedgerOps
  /\ ledgerLog' = [ledgerLog EXCEPT !.ops = @ + 1,
       !.checks = @ \cup {[userId |-> t, fingerprint |-> f,
                           result |-> checkMultipleFingerprints(t, fps)[f]]
                          : f \in fps}]
  /\ UNCHANGED <<ledger, clock>>
  /\ LedgerUnchanged

LedgerUpdateAction(t, r, a) ==
  /\ ledgerLog.ops < MaxLedgerOps
  /\ ledger' = updateFingerprintAction(t, r, a)
  /\ ledgerLog' = [ledgerLog EXCEPT !.ops = @ + 1]
  /\ UNCHANGED clock
  /\ LedgerUnchanged

LedgerFps == {"f1", "f2", "f3"}

\* two tenants each own one record created by the parse-email path
InitLedger ==
  /\ opps = (1 :> NewOpp(1, "t1", "m1", "f1", "s1", NullId, TRUE, FALSE,
                         "nao_analisada"))
         @@ (2 :> NewOpp(2, "t2", "m1", "f1", "s1", NullId, TRUE, FALSE,
                         "nao_analisada"))
  /\ ledger = {[userId |-> "t1", fingerprint |-> "f1", opportunityId |-> 1,
                action |-> "deleted", createdAt |-> 1],
               [userId |-> "t2", fingerprint |-> "f1", opportunityId |-> 2,
                action |-> "deleted", createdAt |-> 2]}
  /\ nextId = 3
  /\ clock = 3
  /\ body = [m \in Msgs |-> <<Item("f1", "s1", TRUE)>>]
  /\ handlers = [h \in Handlers |-> IdleHandler]
  /\ started = 0
  /\ createdLog = {}
  /\ splits = [r \in SplitIds |-> IdleSplit]
  /\ queue = <<>>
  /\ nextJob = 1
  /\ fh = IdleFetch
  /\ settings = [t \in Tenants |-> DefaultSettings]
  /\ ledgerLog = [ops |-> 0, recorded |-> {}, checks |-> {}]
  /\ direct = IdleDirect
  /\ alerts = <<>>
  /\ probe = NoProbe

NextLedger ==
  \/ \E t \in Tenants, r \in DOMAIN opps, f \in LedgerFps : LedgerRecord(t, r, f)
  \/ \E t \in Tenants, f \in LedgerFps : LedgerCheck(t, f)
  \/ \E t \in Tenants, fps \in SUBSET LedgerFps : LedgerCheckMany(t, fps)
  \/ \E t \in Tenants, r \in DOMAIN opps, a \in Actions :
       LedgerUpdateAction(t, r, a)

SpecLedger == InitLedger /\ [][NextLedger]_vars

----------------------------------------------------------------------------
(* Child splitting: ChildOpportunitiesService.createChildrenFromScraping *)

LineItem(li, nsn, vc, vpn) ==
  [lineItem |-> li, nsn |-> nsn, vendorCode |-> vc, vendorPartNumber |-> vpn]

\* the lineItems of the documents the extractor hands over
DocA == <<LineItem("0001", "n1", "", ""), LineItem("0002", "n2", "K1", "P1")>>
DocC == <<LineItem("0001", "n1", "", "")>>
DocD == <<LineItem("0003", "", "K1", "P1"), LineItem("0004", "", "K1", "P2")>>

Docs == {DocA, DocC, DocD}

\* sha256 of the parts joined with '|': the digest is injective on the joined
\* text, which stands for it
generateChildFingerprint(sol, li) ==
  sol \o "|" \o li.lineItem \o "|" \o li.nsn \o "|" \o li.vendorCode
      \o "|" \o li.vendorPartNumber

DocFingerprints(sol, doc) ==
  {generateChildFingerprint(sol, doc[i]) : i \in 1..Len(doc)}

\* the guard against re-splitting (lines 57-61)
AlreadySplit_never(parent) == FALSE

AlreadySplit(parent) == parent.childrenCount > 0

SplitUnchanged ==
  UNCHANGED <<body, handlers, started, queue, nextJob, fh, settings, ledgerLog,
              direct, alerts, probe>>

CrashedOn(pid, doc) ==
  \E q \in SplitIds : /\ splits[q].pc = "crashed"
                      /\ splits[q].parentId = pid
                      /\ splits[q].doc = doc

\* the call; a document with at most one line item returns 0 (line 29)
InvokedSplit(pid, doc) ==
  [IdleSplit EXCEPT !.pc = IF Len(doc) <= 1 THEN "done" ELSE "load",
                    !.parentId = pid, !.doc = doc,
                    !.invokedCount = IF pid \in DOMAIN opps
                                       THEN opps[pid].childrenCount ELSE 0,
                    !.afterCrash = CrashedOn(pid, doc)]

SplitInvoke(r, pid, doc) ==
  /\ splits[r].pc = "idle"
  /\ \A q \in SplitIds : q < r => splits[q].pc # "idle"
  /\ splits' = [splits EXCEPT ![r] = InvokedSplit(pid, doc)]
  /\ UNCHANGED <<opps, ledger, nextId, clock, createdLog>>
  /\ SplitUnchanged

IsChild_never(row) == FALSE

\* the guard against children of children (line 55)
IsChild(row) == row.parentOpportunityId # NullId

\* the parent is read and the guards are evaluated (lines 31-61)
SplitLoad(r) ==
  LET sr == splits[r] IN
  /\ sr.pc = "load"
  /\ splits' = [splits EXCEPT ![r] =
       IF sr.parentId \notin DOMAIN opps THEN Ended(sr, "done")
       ELSE IF IsChild(opps[sr.parentId]) THEN Ended(sr, "done")
       ELSE IF AlreadySplit(opps[sr.parentId]) THEN Ended(sr, "done")
       ELSE [sr EXCEPT !.pc = "check", !.idx = 1, !.entered = TRUE,
                       !.parent = opps[sr.parentId]]]
  /\ UNCHANGED <<opps, ledger, nextId, clock, createdLog>>
  /\ SplitUnchanged

SplitFingerprint(sr) ==
  generateChildFingerprint(sr.parent.solicitationNumber, sr.doc[sr.idx])

\* top of the loop: the ledger check of the line item (lines 65-79)
SplitCheck(r) ==
  LET sr == splits[r] IN
  /\ sr.pc = "check"
  /\ splits' = [splits EXCEPT ![r] =
       IF sr.idx > Len(sr.doc) THEN [sr EXCEPT !.pc = "count"]
       ELSE IF checkFingerprint(sr.parent.userId, SplitFingerprint(sr)).exists
         THEN [sr EXCEPT !.idx = @ + 1]
       ELSE [sr EXCEPT !.pc = "create"]]
  /\ UNCHANGED <<opps, ledger, nextId, clock, createdLog>>
  /\ SplitUnchanged

\* the data of prisma.opportunity.create for a line item (lines 82-113)
ChildRow(id, parent, li) ==
  [NewOpp(id, parent.userId, parent.emailMessageId,
          generateChildFingerprint(parent.solicitationNumber, li),
          parent.solicitationNumber, parent.id, parent.sourceUrl,
          parent.expired, parent.status)
     EXCEPT !.site = parent.site,
            !.deliveryDate = parent.deliveryDate,
            !.enriched = [NoValues EXCEPT
                            !["nsn"] = li.nsn,
                            !["partNumber"] = li.vendorPartNumber,
                            !["manufacturer"] = li.vendorCode],
            !.extractedData = li.lineItem]

\* the child row is inserted (lines 81-114); a unique-index rejection or a
\* missing parent propagates out of the call
SplitCreate(r) ==
  LET sr == splits[r]
      row == ChildRow(nextId, sr.parent, sr.doc[sr.idx]) IN
  /\ sr.pc = "create"
  /\ IF \/ OppUniqueViolation(row.userId, row.emailMessageId, row.fingerprint)
        \/ sr.parent.id \notin DOMAIN opps
       THEN /\ splits' = [splits EXCEPT ![r] = Ended(sr, "error")]
            /\ UNCHANGED <<opps, nextId, createdLog>>
       ELSE /\ opps' = InsertOpp(row)
            /\ nextId' = nextId + 1
            /\ createdLog' = LogCreate(row, "child")
            /\ splits' = [splits EXCEPT ![r] =
                 [sr EXCEPT !.pc = "record", !.child = row.id,
                            !.wrote = @ + 1]]
  /\ UNCHANGED <<ledger, clock>>
  /\ SplitUnchanged

\* the child's fingerprint is recorded (lines 116-122)
SplitRecord(r) ==
  LET sr == splits[r] IN
  /\ sr.pc = "record"
  /\ IF LedgerUniqueViolation(sr.parent.userId, SplitFingerprint(sr))
       THEN /\ splits' = [splits EXCEPT ![r] = Ended(sr, "error")]
            /\ UNCHANGED <<ledger, clock>>
       ELSE /\ ledger' = recordFingerprint(sr.parent.userId, sr.child,
                                           SplitFingerprint(sr))
            /\ clock' = clock + 1
            /\ splits' = [splits EXCEPT ![r] =
                 [sr EXCEPT !.pc = "check", !.idx = @ + 1, !.created = @ + 1,
                            !.wrote = @ + 1]]
  /\ UNCHANGED <<opps, nextId, createdLog>>
  /\ SplitUnchanged

\* after the loop the parent's childrenCount is written (lines 125-138)
SplitCount(r) ==
  LET sr == splits[r] IN
  /\ sr.pc = "count"
  /\ IF sr.created = 0
       THEN /\ splits' = [splits EXCEPT ![r] = Ended(sr, "done")]
            /\ opps' = opps
     ELSE IF sr.parentId \notin DOMAIN opps
       THEN /\ splits' = [splits EXCEPT ![r] = Ended(sr, "error")]
            /\ opps' = opps
     ELSE /\ opps' = [opps EXCEPT ![sr.parentId].childrenCount = sr.created]
          /\ splits' = [splits EXCEPT ![r] =
               Ended([sr EXCEPT !.wrote = @ + 1], "done")]
  /\ UNCHANGED <<ledger, nextId, clock, createdLog>>
  /\ SplitUnchanged

\* the process stops inside the per-line-item loop
SplitCrash(r) ==
  /\ splits[r].pc \in {"check", "create", "record"}
  /\ splits[r].idx <= Len(splits[r].doc)
  /\ splits' = [splits EXCEPT ![r] = Ended(splits[r], "crashed")]
  /\ UNCHANGED <<opps, ledger, nextId, clock, createdLog>>
  /\ SplitUnchanged

SplitStep(r) ==
  \/ SplitLoad(r)
  \/ SplitCheck(r)
  \/ SplitCreate(r)
  \/ SplitRecord(r)
  \/ SplitCount(r)

\* a tenant owns one record created by the parse-email path
InitChildren ==
  /\ opps = (1 :> NewOpp(1, "t1", "m1", "f1", "s1", NullId, TRUE, FALSE,
                         "nao_analisada"))
  /\ ledger = {[userId |-> "t1", fingerprint |-> "f1", opportunityId |-> 1,
                action |-> "deleted", createdAt |-> 1]}
  /\ nextId = 2
  /\ clock = 2
  /\ body = [m \in Msgs |-> <<Item("f1", "s1", TRUE)>>]
  /\ handlers = [h \in Handlers |-> IdleHandler]
  /\ started = 0
  /\ createdLog = {}
  /\ splits = [r \in SplitIds |-> IdleSplit]
  /\ queue = <<>>
  /\ nextJob = 1
  /\ fh = IdleFetch
  /\ settings = [t \in Tenants |-> DefaultSettings]
  /\ ledgerLog = [ops |-> 0, recorded |-> {}, checks |-> {}]
  /\ direct = IdleDirect
  /\ alerts = <<>>
  /\ probe = NoProbe

NextChildren ==
  \/ \E r \in SplitIds, pid \in DOMAIN opps, doc \in Docs :
       SplitInvoke(r, pid, doc)
  \/ \E r \in SplitIds : SplitStep(r)
  \/ \E r \in SplitIds : SplitCrash(r)

SpecChildren == InitChildren /\ [][NextChildren]_vars

(* Specification: a parent is split, scraped again and split again, runs
   stop mid-loop, and the tenant hard-deletes records of the family *)

FamilyDelete == \E id \in DOMAIN opps : hardDelete(id, "t1")

\* the fetch worker runs one job at a time, so a split starts when no other
\* is in progress
NoSplitRunning ==
  \A r \in SplitIds : splits[r].pc \in {"idle", "done", "error", "crashed"}

NextFamily ==
  \/ \E r \in SplitIds : NoSplitRunning /\ SplitInvoke(r, 1, DocA)
  \/ \E r \in SplitIds : SplitStep(r)
  \/ \E r \in SplitIds : SplitCrash(r)
  \/ FamilyDelete

SpecFamily == InitChildren /\ [][NextFamily]_vars

----------------------------------------------------------------------------
(* Fetch queue: Bull queue 'scraping' and its worker *)

WorkerConcurrency == 1

FetchUnchanged == UNCHANGED <<body, handlers, started, ledgerLog, direct, probe>>

JobsIn(state) == {j \in DOMAIN queue : queue[j].state = state}

\* a job that is neither started nor finished
Pending == JobsIn("waiting") \cup JobsIn("delayed")

RemoveJob(q, j) == [k \in DOMAIN q \ {j} |-> q[k]]

\* a caller enqueues the fetch of a record that has a source URL
AddJob(id) ==
  /\ nextJob <= MaxJobs
  /\ id \in DOMAIN opps
  /\ opps[id].sourceUrl
  /\ queue' = addScrapingJob(id, opps[id].userId)
  /\ nextJob' = nextJob + 1
  /\ UNCHANGED <<opps, ledger, nextId, clock, createdLog, splits, fh, settings>>
  /\ UNCHANGED alerts
  /\ FetchUnchanged

\* the limiter (1 job per 5000 ms) sends the job the idle worker would take
\* next to the delayed set
RateLimited(j) ==
  /\ fh.pc \in {"idle", "done"}
  /\ j \in JobsIn("waiting")
  /\ queue' = [queue EXCEPT ![j].state = "delayed"]
  /\ UNCHANGED <<opps, ledger, nextId, clock, createdLog, splits, nextJob, fh,
                 settings>>
  /\ UNCHANGED alerts
  /\ FetchUnchanged

\* the delay timer of the queue moves a due job back to the wait list
Promote(j) ==
  /\ j \in JobsIn("delayed")
  /\ queue' = [queue EXCEPT ![j].state = "waiting"]
  /\ UNCHANGED <<opps, ledger, nextId, clock, createdLog, splits, nextJob, fh,
                 settings>>
  /\ UNCHANGED alerts
  /\ FetchUnchanged

\* ScrapingService.updateSettings: maxRetries is validated to 1..10
updateSettings(t, n) ==
  /\ settings[t].maxRetries # n
  /\ settings' = [settings EXCEPT ![t].maxRetries = n]
  /\ UNCHANGED <<opps, ledger, nextId, clock, createdLog, splits, queue,
                 nextJob, fh>>
  /\ UNCHANGED alerts
  /\ FetchUnchanged

----------------------------------------------------------------------------
(* What a fetch attempt can come back with *)

Page(title, text, doc, cancel) ==
  [kind |-> "http200", title |-> title, text |-> text, doc |-> doc,
   isCancellation |-> cancel]

Failure(kind) ==
  [kind |-> kind, title |-> "", text |-> "", doc |-> <<>>,
   isCancellation |-> FALSE]

\* title.trim().toLowerCase() of the titles the model serves
ToLowerCase(title) ==
  IF title = "Error Page" THEN "error page"
  ELSE IF title = "NECO Solicitation" THEN "neco solicitation"
  ELSE title

\* the body texts the model serves contain a signature exactly when they are
\* that signature
Includes(text, part) == text = part

isNecoErrorPage_never(page) == FALSE

\* error page detection (lines 294-301)
isNecoErrorPage(page) ==
  \/ Includes(ToLowerCase(page.title), "error page")
  \/ Includes(page.text, "An Error Has Occured")
  \/ Includes(page.text, "An Error Has Occurred")

Responses ==
  { Failure("timeout"), Failure("error"), Failure("http401"),
    Failure("http403"), Failure("http404"),
    Page("Error Page", "", <<>>, FALSE),
    Page("NECO Solicitation", "An Error Has Occured", <<>>, FALSE),
    Page("", "An Error Has Occurred", <<>>, FALSE),
    Page("NECO Solicitation", "Solicitation", DocC, FALSE),
    Page("NECO Solicitation", "Solicitation", DocA, FALSE),
    Page("NECO Solicitation", "Solicitation", DocC, TRUE) }

Retryable_anyFailure(resp) == resp.kind # "http200"

\* the failures whose catch branch may call scrapeWithRetry again
\* (lines 350-354 and 402-406)
Retryable(resp) == resp.kind \in {"timeout", "error"}

ShouldRetry_inclusive(attempt, maxRetries) == attempt <= maxRetries

\* the retry guard of both catch branches (lines 351 and 402)
ShouldRetry(attempt, maxRetries) == attempt < maxRetries

ShouldDrain_always(status) == TRUE

\* the circuit breaker condition (line 175)
ShouldDrain(status) == status = "neco_error"

\* the terminal status of a failed attempt that is not retried (lines 350-415)
TerminalStatus(resp) ==
  IF resp.kind = "timeout" THEN "timeout"
  ELSE IF resp.kind = "http200" THEN "neco_error"
  ELSE IF resp.kind \in {"http401", "http403"} THEN "blocked"
  ELSE "failed"

\* updateScrapingStatus (lines 655-667)
updateScrapingStatus(id, status) == [opps EXCEPT ![id].scrapingStatus = status]

----------------------------------------------------------------------------
(* Fetch handler: ScrapingProcessorQueue.handleScraping *)

FetchRunning == fh.pc \notin {"idle", "done"}

\* the handler returns: Bull marks the job completed
Finish(run, status) ==
  /\ fh' = [IdleFetch EXCEPT !.pc = "done", !.status = status,
                             !.job = run.job, !.userId = run.userId,
                             !.oppId = run.oppId, !.pending = run.pending,
                             !.removed = run.removed]
  /\ queue' = IF run.job \in DOMAIN queue
                THEN [queue EXCEPT ![run.job].state = "completed"]
                ELSE queue

\* the worker takes a waiting job
FetchStart(j) ==
  /\ Cardinality(JobsIn("active")) < WorkerConcurrency
  /\ ~FetchRunning
  /\ j \in JobsIn("waiting")
  /\ queue' = [queue EXCEPT ![j].state = "active"]
  /\ fh' = [IdleFetch EXCEPT !.pc = "skipcheck", !.job = j,
                             !.userId = queue[j].userId,
                             !.oppId = queue[j].opportunityId]
  /\ UNCHANGED <<opps, ledger, nextId, clock, createdLog, splits, nextJob,
                 settings>>
  /\ UNCHANGED alerts
  /\ FetchUnchanged

\* cancelled, deleted and expired records are skipped (lines 128-145)
FetchSkipCheck ==
  /\ fh.pc = "skipcheck"
  /\ IF \/ fh.oppId \notin DOMAIN opps
        \/ opps[fh.oppId].deleted
        \/ opps[fh.oppId].status = "cancelada"
        \/ opps[fh.oppId].expired
       THEN Finish(fh, "skipped")
       ELSE /\ fh' = [fh EXCEPT !.pc = "auto"]
            /\ queue' = queue
  /\ UNCHANGED <<opps, ledger, nextId, clock, createdLog, splits, nextJob,
                 settings>>
  /\ UNCHANGED alerts
  /\ FetchUnchanged

\* scrapeOpportunityAuto and scrapeOpportunity up to the call of
\* scrapeWithRetry: template switch, record lookup, domain policy
FetchAuto(templateEnabled, policy) ==
  LET found == fh.oppId \in DOMAIN opps /\ opps[fh.oppId].userId = fh.userId
      status == IF ~templateEnabled THEN "disabled"
                ELSE IF ~found THEN "failed"
                ELSE IF ~opps[fh.oppId].sourceUrl THEN "failed"
                ELSE IF policy = "disabled" THEN "blocked"
                ELSE IF policy = "requiresAuth" THEN "requires_auth"
                ELSE "none" IN
  /\ fh.pc = "auto"
  /\ fh' = IF status = "none" THEN [fh EXCEPT !.pc = "attempt", !.attempt = 1]
           ELSE [fh EXCEPT !.pc = "breaker", !.status = status]
  /\ opps' = IF status \in {"blocked", "requires_auth"}
               THEN updateScrapingStatus(fh.oppId, status) ELSE opps
  /\ UNCHANGED <<ledger, nextId, clock, createdLog, splits, queue, nextJob,
                 settings>>
  /\ UNCHANGED alerts
  /\ FetchUnchanged

\* top of scrapeWithRetry: the settings are read on every attempt and the
\* first attempt marks the record pending (lines 272-284)
FetchAttempt ==
  /\ fh.pc = "attempt"
  /\ fh' = [fh EXCEPT !.pc = "get",
                      !.maxRetries = settings[fh.userId].maxRetries,
                      !.limits = @ \cup {settings[fh.userId].maxRetries}]
  /\ opps' = IF fh.attempt = 1 THEN updateScrapingStatus(fh.oppId, "pending")
             ELSE opps
  /\ UNCHANGED <<ledger, nextId, clock, createdLog, splits, queue, nextJob,
                 settings>>
  /\ UNCHANGED alerts
  /\ FetchUnchanged

\* a served page carries an error-page signature in its title or body
CarriesSignature(resp) ==
  /\ resp.kind = "http200"
  /\ \/ resp.title \in {"Error Page", "error page"}
     \/ resp.text \in {"An Error Has Occured", "An Error Has Occurred"}

\* buildEnrichmentData (lines 505-543): the first line item of the document
\* fills part number and manufacturer when it has them; the line items of
\* the model carry no quantity, unit, nomenclature or condition
buildEnrichmentData(doc, row) ==
  IF Len(doc) = 0 THEN row.enriched
  ELSE [row.enriched EXCEPT
          !["partNumber"] = Mapped(doc[1].vendorPartNumber, @),
          !["manufacturer"] = Mapped(doc[1].vendorCode, @)]

\* the fetch and what scrapeWithRetry does with its outcome (lines 286-416)
FetchGet(resp) ==
  LET run == [fh EXCEPT !.fetches = @ + 1,
                 !.last = resp.kind,
                 !.retryableOnly = @ /\ Retryable(resp),
                 !.errorPageAt = IF CarriesSignature(resp) /\ @ = 0
                                   THEN fh.fetches + 1 ELSE @]
      ok == resp.kind = "http200" /\ ~isNecoErrorPage(resp) IN
  /\ fh.pc = "get"
  /\ IF ok
       THEN /\ opps' = [opps EXCEPT
                 ![fh.oppId].scrapingStatus = "success",
                 ![fh.oppId].enriched =
                     buildEnrichmentData(resp.doc, opps[fh.oppId]),
                 ![fh.oppId].status = IF resp.isCancellation
                                        THEN "cancelada" ELSE @]
            /\ fh' = [run EXCEPT !.pc = IF Len(resp.doc) > 1 THEN "children"
                                        ELSE "breaker",
                                 !.status = "success", !.success = TRUE,
                                 !.doc = resp.doc]
     ELSE IF Retryable(resp) /\ ShouldRetry(fh.attempt, fh.maxRetries)
       THEN /\ opps' = opps
            /\ fh' = [run EXCEPT !.pc = "attempt", !.attempt = @ + 1]
     ELSE /\ opps' = updateScrapingStatus(fh.oppId, TerminalStatus(resp))
          /\ fh' = [run EXCEPT !.pc = "breaker",
                               !.status = TerminalStatus(resp)]
  /\ alerts' = IF ok /\ resp.isCancellation
                   /\ opps[fh.oppId].status # "cancelada"
                 THEN EmitCancellation(fh.oppId) ELSE alerts
  /\ UNCHANGED <<ledger, nextId, clock, createdLog, splits, queue, nextJob,
                 settings>>
  /\ FetchUnchanged

\* a document with more than one line item is split into children
\* (lines 158-172)
FetchChildren ==
  /\ fh.pc = "children"
  /\ splits[1].pc = "idle"
  /\ splits' = [splits EXCEPT ![1] = InvokedSplit(fh.oppId, fh.doc)]
  /\ fh' = [fh EXCEPT !.pc = "splitting"]
  /\ UNCHANGED <<opps, ledger, nextId, clock, createdLog, queue, nextJob,
                 settings>>
  /\ UNCHANGED alerts
  /\ FetchUnchanged

FetchSplitStep == fh.pc = "splitting" /\ SplitStep(1)

\* the call returned or threw; the handler logs and goes on
FetchChildrenDone ==
  /\ fh.pc = "splitting"
  /\ splits[1].pc \in {"done", "error"}
  /\ splits' = [splits EXCEPT ![1] = IdleSplit]
  /\ fh' = [fh EXCEPT !.pc = "breaker", !.doc = <<>>]
  /\ UNCHANGED <<opps, ledger, nextId, clock, createdLog, queue, nextJob,
                 settings>>
  /\ UNCHANGED alerts
  /\ FetchUnchanged

\* circuit breaker (lines 174-178)
FetchBreaker ==
  /\ fh.pc = "breaker"
  /\ fh' = IF ShouldDrain(fh.status)
             THEN [fh EXCEPT !.pc = "drainWaiting", !.pending = Pending]
             ELSE [fh EXCEPT !.pc = "delay"]
  /\ UNCHANGED <<opps, ledger, nextId, clock, createdLog, splits, queue,
                 nextJob, settings>>
  /\ UNCHANGED alerts
  /\ FetchUnchanged

\* drainQueue: getWaiting (line 201)
DrainGetWaiting ==
  /\ fh.pc = "drainWaiting"
  /\ fh' = [fh EXCEPT !.pc = "drainDelayed", !.snapshot = JobsIn("waiting")]
  /\ UNCHANGED <<opps, ledger, nextId, clock, createdLog, splits, queue,
                 nextJob, settings>>
  /\ UNCHANGED alerts
  /\ FetchUnchanged

\* drainQueue: getDelayed (line 202)
DrainGetDelayed ==
  /\ fh.pc = "drainDelayed"
  /\ fh' = [fh EXCEPT !.pc = "remove",
                      !.snapshot = @ \cup JobsIn("delayed")]
  /\ UNCHANGED <<opps, ledger, nextId, clock, createdLog, splits, queue,
                 nextJob, settings>>
  /\ UNCHANGED alerts
  /\ FetchUnchanged

\* drainQueue: one j.remove() of the loop (lines 209-211); after the loop
\* the handler returns the result
DrainRemove ==
  /\ fh.pc = "remove"
  /\ IF fh.snapshot = {}
       THEN Finish(fh, fh.status)
       ELSE LET j == CHOOSE k \in fh.snapshot : \A m \in fh.snapshot : k <= m
            IN /\ queue' = RemoveJob(queue, j)
               /\ fh' = [fh EXCEPT !.snapshot = @ \ {j},
                                   !.removed = @ \cup {j}]
  /\ UNCHANGED <<opps, ledger, nextId, clock, createdLog, splits, nextJob,
                 settings>>
  /\ UNCHANGED alerts
  /\ FetchUnchanged

\* the politeness delay, then the handler returns the result (lines 180-186)
FetchDelay ==
  /\ fh.pc = "delay"
  /\ Finish(fh, fh.status)
  /\ UNCHANGED <<opps, ledger, nextId, clock, createdLog, splits, nextJob,
                 settings>>
  /\ UNCHANGED alerts
  /\ FetchUnchanged

FetchStep ==
  \/ FetchSkipCheck
  \/ \E en \in BOOLEAN, policy \in {"enabled", "disabled", "requiresAuth"} :
       FetchAuto(en, policy)
  \/ FetchAttempt
  \/ \E resp \in Responses : FetchGet(resp)
  \/ FetchChildren
  \/ FetchSplitStep
  \/ FetchChildrenDone
  \/ FetchBreaker
  \/ DrainGetWaiting
  \/ DrainGetDelayed
  \/ DrainRemove
  \/ FetchDelay

\* two tenants each own one record with a source URL
InitFetch ==
  /\ opps = (1 :> NewOpp(1, "t1", "m1", "f1", "s1", NullId, TRUE, FALSE,
                         "nao_analisada"))
         @@ (2 :> NewOpp(2, "t2", "m1", "f1", "s1", NullId, TRUE, FALSE,
                         "nao_analisada"))
  /\ ledger = {[userId |-> "t1", fingerprint |-> "f1", opportunityId |-> 1,
                action |-> "deleted", createdAt |-> 1],
               [userId |-> "t2", fingerprint |-> "f1", opportunityId |-> 2,
                action |-> "deleted", createdAt |-> 2]}
  /\ nextId = 3
  /\ clock = 3
  /\ body = [m \in Msgs |-> <<Item("f1", "s1", TRUE)>>]
  /\ handlers = [h \in Handlers |-> IdleHandler]
  /\ started = 0
  /\ createdLog = {}
  /\ splits = [r \in SplitIds |-> IdleSplit]
  /\ queue = <<>>
  /\ nextJob = 1
  /\ fh = IdleFetch
  /\ settings = [t \in Tenants |-> DefaultSettings]
  /\ ledgerLog = [ops |-> 0, recorded |-> {}, checks |-> {}]
  /\ direct = IdleDirect
  /\ alerts = <<>>
  /\ probe = NoProbe

FetchTargets == {1, 2}

NextFetch ==
  \/ \E id \in FetchTargets : AddJob(id)
  \/ \E j \in DOMAIN queue : RateLimited(j)
  \/ \E j \in DOMAIN queue : Promote(j)
  \/ \E j \in DOMAIN queue : FetchStart(j)
  \/ FetchStep

SpecFetch == InitFetch /\ [][NextFetch]_vars

(* Specification: fetch jobs of one record while its tenant edits the
   scraping settings *)

NextScrape ==
  \/ AddJob(1)
  \/ \E j \in DOMAIN queue : FetchStart(j)
  \/ FetchStep
  \/ \E n \in 1..MaxRetriesCap : updateSettings("t1", n)

SpecScrape == InitFetch /\ [][NextScrape]_vars

----------------------------------------------------------------------------
(* Bulk enqueue: QueuesService.bulkEnqueueScraping, then the fetch handler *)

\* the records the findMany of lines 283-299 selects
BulkEligible(user, rescrape) ==
  {id \in DOMAIN opps :
     /\ opps[id].userId = user
     /\ opps[id].sourceUrl
     /\ ~opps[id].deleted
     /\ opps[id].status # "cancelada"
     /\ \/ opps[id].scrapingStatus \in {"pending", "failed", "null"}
        \/ rescrape /\ opps[id].scrapingStatus = "success"
     /\ ~opps[id].expired}

\* one job per selected record, here in the order of the record ids; with
\* rescrape the records are first marked pending (lines 312-331)
bulkEnqueueScraping(user, rescrape) ==
  LET ids == BulkEligible(user, rescrape)
      n == Cardinality(ids)
      Nth(k) == CHOOSE id \in ids : Cardinality({e \in ids : e < id}) = k IN
  /\ n > 0
  /\ nextJob + n - 1 <= MaxJobs
  /\ opps' = [id \in DOMAIN opps |->
                IF rescrape /\ id \in ids
                  THEN [opps[id] EXCEPT !.scrapingStatus = "pending"]
                  ELSE opps[id]]
  /\ queue' = [j \in DOMAIN queue \cup (nextJob..(nextJob + n - 1)) |->
                 IF j \in DOMAIN queue THEN queue[j]
                 ELSE NewJob(j, Nth(j - nextJob), user)]
  /\ nextJob' = nextJob + n
  /\ UNCHANGED <<ledger, nextId, clock, createdLog, splits, fh, settings>>
  /\ UNCHANGED alerts
  /\ FetchUnchanged

\* the page of the solicitation, or a failure
BulkResponses ==
  {Failure("error"), Page("NECO Solicitation", "Solicitation", DocD, FALSE)}

\* record 1 was scraped and split into the children of DocD's line items
InitBulk ==
  /\ LET parent == NewOpp(1, "t1", "m1", "f1", "s1", NullId, TRUE, FALSE,
                          "nao_analisada") IN
     opps = (1 :> [parent EXCEPT
                     !.scrapingStatus = "success", !.childrenCount = 2,
                     !.enriched = buildEnrichmentData(DocD, parent)])
            @@ [i \in {2, 3} |-> ChildRow(i, parent, DocD[i - 1])]
  /\ ledger = {[userId |-> "t1", fingerprint |-> "f1", opportunityId |-> 1,
                action |-> "created", createdAt |-> 1]}
              \cup {[userId |-> "t1",
                     fingerprint |-> generateChildFingerprint("s1", DocD[i - 1]),
                     opportunityId |-> i, action |-> "created",
                     createdAt |-> i] : i \in {2, 3}}
  /\ nextId = 4
  /\ clock = 4
  /\ body = [m \in Msgs |-> <<Item("f1", "s1", TRUE)>>]
  /\ handlers = [h \in Handlers |-> IdleHandler]
  /\ started = 0
  /\ createdLog = {}
  /\ splits = [r \in SplitIds |-> IdleSplit]
  /\ queue = <<>>
  /\ nextJob = 1
  /\ fh = IdleFetch
  /\ settings = [t \in Tenants |-> DefaultSettings]
  /\ ledgerLog = [ops |-> 0, recorded |-> {}, checks |-> {}]
  /\ direct = IdleDirect
  /\ alerts = <<>>
  /\ probe = NoProbe

NextBulk ==
  \/ \E rescrape \in BOOLEAN : bulkEnqueueScraping("t1", rescrape)
  \/ \E j \in DOMAIN queue : FetchStart(j)
  \/ FetchSkipCheck
  \/ \E en \in BOOLEAN, policy \in {"enabled", "disabled", "requiresAuth"} :
       FetchAuto(en, policy)
  \/ FetchAttempt
  \/ \E resp \in BulkResponses : FetchGet(resp)
  \/ FetchChildren
  \/ FetchSplitStep
  \/ FetchChildrenDone
  \/ FetchBreaker
  \/ FetchDelay

SpecBulk == InitBulk /\ [][NextBulk]_vars

----------------------------------------------------------------------------
(* Workflow status: VALID_TRANSITIONS and the operations that write status *)

OpportunityStatus ==
  {"nao_analisada", "analisada", "em_cotacao", "lancada_bid", "vencedora_bid",
   "nao_vencedora", "cancelada", "descartada"}

VALID_TRANSITIONS ==
  [st \in OpportunityStatus |->
     CASE st = "nao_analisada" -> {"analisada", "descartada", "cancelada"}
       [] st = "analisada" -> {"em_cotacao", "descartada", "cancelada"}
       [] st = "em_cotacao" -> {"lancada_bid", "analisada", "cancelada"}
       [] st = "lancada_bid" -> {"vencedora_bid", "nao_vencedora", "cancelada"}
       [] st = "vencedora_bid" -> {"cancelada"}
       [] st = "nao_vencedora" -> {"analisada", "cancelada"}
       [] st = "cancelada" -> {}
       [] st = "descartada" -> {"nao_analisada"}]

WorkflowUnchanged ==
  UNCHANGED <<ledger, nextId, body, handlers, started, createdLog, splits,
              queue, nextJob, fh, settings, ledgerLog, direct, probe>>

\* findOne / findActiveOrThrow: the record of the tenant that is not deleted
FindActive(id, user) ==
  /\ id \in DOMAIN opps
  /\ opps[id].userId = user
  /\ ~opps[id].deleted

\* a call that throws writes nothing; the calls of a behaviour are counted
\* by the clock their writes take updatedAt from
WorkflowWrite(id, status, alert) ==
  /\ clock < MaxWorkflowClock
  /\ clock' = clock + 1
  /\ opps' = [opps EXCEPT ![id].status = status]
  /\ alerts' = IF alert THEN EmitCancellation(id) ELSE alerts
  /\ WorkflowUnchanged

\* allowedTransitions.includes(dto.toStatus)
Allowed(from, to) == to \in VALID_TRANSITIONS[from]

transitionStatus(id, user, toStatus) ==
  /\ FindActive(id, user)
  /\ Allowed(opps[id].status, toStatus)
  /\ WorkflowWrite(id, toStatus, toStatus = "cancelada")

\* update: status is written as the dto carries it; a dto without status
\* leaves the column alone
update(id, user, dtoStatus) ==
  /\ FindActive(id, user)
  /\ WorkflowWrite(id, IF dtoStatus = "undefined" THEN opps[id].status
                       ELSE dtoStatus, FALSE)

updateBid(id, user) ==
  /\ FindActive(id, user)
  /\ opps[id].status \in {"lancada_bid", "em_cotacao"}
  /\ WorkflowWrite(id, "lancada_bid", FALSE)

updateBidResult(id, user, result) ==
  /\ FindActive(id, user)
  /\ opps[id].status = "lancada_bid"
  /\ WorkflowWrite(id, result, FALSE)

\* the scraper found the cancellation flag on the page of the record
handleScrapingCancellation(id) ==
  /\ id \in DOMAIN opps
  /\ opps[id].status # "cancelada"
  /\ WorkflowWrite(id, "cancelada", TRUE)

NextWorkflow ==
  \/ \E id \in DOMAIN opps, t \in Tenants, to \in OpportunityStatus :
       transitionStatus(id, t, to)
  \/ \E id \in DOMAIN opps, t \in Tenants,
        st \in OpportunityStatus \cup {"undefined"} : update(id, t, st)
  \/ \E id \in DOMAIN opps, t \in Tenants : updateBid(id, t)
  \/ \E id \in DOMAIN opps, t \in Tenants,
        result \in {"vencedora_bid", "nao_vencedora"} :
       updateBidResult(id, t, result)
  \/ \E id \in DOMAIN opps : handleScrapingCancellation(id)

SpecWorkflow == InitFetch /\ [][NextWorkflow]_vars

----------------------------------------------------------------------------
(* Scraping outside the queue: ScrapingController.scrapeOpportunity calls
   ScrapingService.scrapeOpportunity in the request *)

DirectUnchanged ==
  UNCHANGED <<ledger, nextId, clock, body, handlers, started, createdLog,
              splits, queue, nextJob, fh, settings, ledgerLog, probe>>

DirectRunning == direct.pc \notin {"idle", "done", "thrown"}

\* POST /scraping/opportunities/:id
DirectStart(id, user) ==
  /\ ~DirectRunning
  /\ direct.runs < MaxDirect
  /\ direct' = [IdleDirect EXCEPT !.pc = "lookup", !.kind = "scrape",
                                  !.userId = user, !.oppId = id,
                                  !.runs = direct.runs + 1]
  /\ UNCHANGED <<opps, alerts>>
  /\ DirectUnchanged

\* the status a domain policy ends the call with before any fetch, "none"
\* when the policy lets the fetch go ahead (lines 195-226)
PolicyStatus_open(policy) == "none"

PolicyStatus(policy) ==
  IF ~policy.enabled THEN "blocked"
  ELSE IF policy.requiresAuth /\ ~policy.credentials THEN "requires_auth"
  ELSE "none"

\* scrapeOpportunity up to the call of scrapeWithRetry (lines 137-229)
DirectLookup(policy) ==
  LET found == /\ direct.oppId \in DOMAIN opps
               /\ opps[direct.oppId].userId = direct.userId
      hasUrl == found /\ opps[direct.oppId].sourceUrl
      status == IF ~hasUrl THEN "failed" ELSE PolicyStatus(policy)
      run == IF hasUrl
               THEN [direct EXCEPT !.resolved = TRUE, !.policy = policy]
               ELSE direct IN
  /\ direct.pc = "lookup"
  /\ direct' = IF status = "none"
                 THEN [run EXCEPT !.pc = "attempt", !.attempt = 1]
                 ELSE [run EXCEPT !.pc = "done", !.status = status]
  /\ opps' = IF status \in {"blocked", "requires_auth"}
               THEN updateScrapingStatus(direct.oppId, status) ELSE opps
  /\ UNCHANGED alerts
  /\ DirectUnchanged

\* the catch block of scrapeWithRetry (lines 347-416): retry, or write the
\* terminal status; prisma's update of a row that is gone throws, and that
\* exception leaves scrapeWithRetry
DirectCatch(run, resp) ==
  IF Retryable(resp) /\ ShouldRetry(run.attempt, run.maxRetries)
    THEN /\ direct' = [run EXCEPT !.pc = "attempt", !.attempt = @ + 1]
         /\ opps' = opps
  ELSE IF run.oppId \in DOMAIN opps
    THEN /\ direct' = [run EXCEPT !.pc = "done",
                                  !.status = TerminalStatus(resp)]
         /\ opps' = updateScrapingStatus(run.oppId, TerminalStatus(resp))
  ELSE /\ direct' = [run EXCEPT !.pc = "thrown"]
       /\ opps' = opps

\* top of scrapeWithRetry (lines 272-284); the pending mark is inside the try
DirectAttempt ==
  LET run == [direct EXCEPT !.maxRetries = settings[direct.userId].maxRetries]
  IN
  /\ direct.pc = "attempt"
  /\ IF direct.attempt = 1 /\ direct.oppId \notin DOMAIN opps
       THEN DirectCatch(run, Failure("error"))
       ELSE /\ direct' = [run EXCEPT !.pc = "get"]
            /\ opps' = IF direct.attempt = 1
                         THEN updateScrapingStatus(direct.oppId, "pending")
                         ELSE opps
  /\ UNCHANGED alerts
  /\ DirectUnchanged

\* the response of the fetch and its handling (lines 286-416)
DirectGet(resp) ==
  LET run == [direct EXCEPT !.fetches = @ + 1]
      ok == resp.kind = "http200" /\ ~isNecoErrorPage(resp) IN
  /\ direct.pc = "get"
  /\ IF ~ok THEN DirectCatch(run, resp)
     ELSE IF direct.oppId \notin DOMAIN opps
       THEN DirectCatch(run, Failure("error"))
     ELSE /\ opps' = [opps EXCEPT
               ![direct.oppId].scrapingStatus = "success",
               ![direct.oppId].enriched =
                   buildEnrichmentData(resp.doc, opps[direct.oppId])]
          /\ direct' = [run EXCEPT
               !.pc = IF resp.isCancellation THEN "cancelRead" ELSE "done",
               !.status = "success", !.flagged = resp.isCancellation]
  /\ UNCHANGED alerts
  /\ DirectUnchanged

\* handleScrapingCancellation: the record is read (lines 550-555)
DirectCancelRead ==
  /\ direct.pc = "cancelRead"
  /\ direct' = IF \/ direct.oppId \notin DOMAIN opps
                  \/ opps[direct.oppId].status = "cancelada"
                 THEN [direct EXCEPT !.pc = "done"]
                 ELSE [direct EXCEPT !.pc = "cancelWrite"]
  /\ UNCHANGED <<opps, alerts>>
  /\ DirectUnchanged

\* handleScrapingCancellation: the status is written and the alert created
\* (lines 566-592); the call is inside the try of scrapeWithRetry
DirectCancelWrite ==
  /\ direct.pc = "cancelWrite"
  /\ IF direct.oppId \notin DOMAIN opps
       THEN /\ DirectCatch([direct EXCEPT !.status = "none"], Failure("error"))
            /\ alerts' = alerts
       ELSE /\ opps' = [opps EXCEPT ![direct.oppId].status = "cancelada"]
            /\ alerts' = EmitCancellation(direct.oppId)
            /\ direct' = [direct EXCEPT !.pc = "done"]
  /\ DirectUnchanged

DirectStep ==
  \/ \E policy \in Policies : DirectLookup(policy)
  \/ DirectAttempt
  \/ \E resp \in Responses : DirectGet(resp)
  \/ DirectCancelRead
  \/ DirectCancelWrite

(* Specification: the endpoint is called while records are deleted and the
   settings change *)

NextDirect ==
  \/ \E id \in FetchTargets, t \in Tenants : DirectStart(id, t)
  \/ DirectStep
  \/ \E id \in FetchTargets, t \in Tenants : hardDelete(id, t)
  \/ \E n \in 1..MaxRetriesCap : updateSettings("t1", n)

SpecDirect == InitFetch /\ [][NextDirect]_vars

(* Specification: the queue worker and the endpoint scrape one tenant's
   record *)

NextLanes ==
  \/ nextJob <= MaxLaneJobs /\ AddJob(1)
  \/ \E j \in DOMAIN queue : FetchStart(j)
  \/ FetchStep
  \/ DirectStart(1, "t1")
  \/ DirectStep

SpecLanes == InitFetch /\ [][NextLanes]_vars

----------------------------------------------------------------------------
(* Domain policy resolution: the template domains of scrapeOpportunity and
   ScrapingService.getDomainConfig. A hostname is the sequence of its labels *)

Hosts ==
  { <<"neco", "navy", "mil">>, <<"www", "neco", "navy", "mil">>,
    <<"navy", "mil">>, <<"sam", "gov">>, <<"www", "sam", "gov">> }

\* the part of a hostname made of its last n labels
LastLabels(host, n) == SubSeq(host, Len(host) - n + 1, Len(host))

\* parts.length > 2 and parts.slice(-2).join('.') (lines 704-706, 733-735)
HasParentDomain(host) == Len(host) > 2

ParentDomain(host) == LastLabels(host, 2)

\* domain.replace(/^www\./, '') (line 174)
StripWww(host) ==
  IF Len(host) > 1 /\ host[1] = "www" THEN Tail(host) ELSE host

\* domain.endsWith(`.${d}`)
EndsWithDot(host, d) == Len(host) > Len(d) /\ LastLabels(host, Len(d)) = d

\* the predicate of templateDomains.find (lines 175-182)
TemplateMatches(d, host) ==
  \/ d = host
  \/ d = StripWww(host)
  \/ d = <<"www">> \o StripWww(host)
  \/ EndsWithDot(host, d)
  \/ host = <<"www">> \o d

\* Array.prototype.find: the index of the first matching entry, 0 for none
FindTemplateDomain(templateDomains, host) ==
  LET hits == {i \in DOMAIN templateDomains :
                 TemplateMatches(templateDomains[i].domain, host)} IN
  IF hits = {} THEN 0 ELSE CHOOSE i \in hits : \A k \in hits : i <= k

\* the hardcoded map (lines 56-65)
defaultDomainConfigs ==
  <<"neco", "navy", "mil">> :>
     [enabled |-> TRUE, requiresAuth |-> FALSE, credentials |-> FALSE]

\* a row of scraping_domain_configs as getDomainConfig returns it: the
\* credentials are never filled in
DbConfig(enabled, requiresAuth) ==
  [enabled |-> enabled, requiresAuth |-> requiresAuth, credentials |-> FALSE]

\* domain.includes(blockedDomain) on whole labels
HostIncludes(host, part) ==
  \E i \in 1..(Len(host) - Len(part) + 1) :
    SubSeq(host, i, i + Len(part) - 1) = part

UnknownDomain ==
  [enabled |-> FALSE, requiresAuth |-> FALSE, credentials |-> FALSE]

\* the hardcoded tiers of getDomainConfig (lines 727-753)
DefaultConfig(host) ==
  LET blocked == {k \in DOMAIN defaultDomainConfigs :
                    HostIncludes(host, k) /\ ~defaultDomainConfigs[k].enabled}
  IN
  IF host \in DOMAIN defaultDomainConfigs THEN defaultDomainConfigs[host]
  ELSE IF /\ HasParentDomain(host)
          /\ ParentDomain(host) \in DOMAIN defaultDomainConfigs
    THEN defaultDomainConfigs[ParentDomain(host)]
  ELSE IF blocked # {} THEN defaultDomainConfigs[CHOOSE k \in blocked : TRUE]
  ELSE UnknownDomain

getDomainConfig_parentFirst(db, host) ==
  IF HasParentDomain(host) /\ ParentDomain(host) \in DOMAIN db
    THEN db[ParentDomain(host)]
  ELSE IF host \in DOMAIN db THEN db[host]
  ELSE DefaultConfig(host)

\* getDomainConfig (lines 684-754); db holds the tenant's rows by domain
getDomainConfig(db, host) ==
  IF host \in DOMAIN db THEN db[host]
  ELSE IF HasParentDomain(host) /\ ParentDomain(host) \in DOMAIN db
    THEN db[ParentDomain(host)]
  ELSE DefaultConfig(host)

\* the domainConfig of scrapeOpportunity (lines 163-193)
ResolvePolicy(templateDomains, db, host) ==
  LET i == FindTemplateDomain(templateDomains, host) IN
  IF i # 0
    THEN [enabled |-> templateDomains[i].enabled, requiresAuth |-> FALSE,
          credentials |-> FALSE]
    ELSE getDomainConfig(db, host)

\* the domains that templates and tenants configure in the model
ConfiguredDomains ==
  { <<"neco", "navy", "mil">>, <<"navy", "mil">>, <<"sam", "gov">> }

TemplateDomainLists ==
  UNION {[1..n -> [domain : ConfiguredDomains, enabled : BOOLEAN]] :
           n \in 0..MaxTemplateDomains}

DbConfigs ==
  UNION {[keys -> {DbConfig(e, a) : e \in BOOLEAN, a \in BOOLEAN}] :
           keys \in SUBSET ConfiguredDomains}

InitPolicy ==
  /\ InitBase
  /\ body = [m \in Msgs |-> <<>>]
  /\ \E host \in Hosts, tpl \in TemplateDomainLists, db \in DbConfigs :
       probe = [kind |-> "policy", host |-> host, templateDomains |-> tpl,
                db |-> db, done |-> FALSE, result |-> UnknownDomain]

\* the policy of the probed host is resolved
ResolveDomain ==
  /\ probe.kind = "policy"
  /\ ~probe.done
  /\ probe' = [probe EXCEPT
       !.done = TRUE,
       !.result = ResolvePolicy(probe.templateDomains, probe.db, probe.host)]
  /\ UNCHANGED <<opps, ledger, nextId, clock, body, handlers, started,
                 createdLog, splits, queue, nextJob, fh, settings, ledgerLog,
                 direct, alerts>>

NextPolicy == ResolveDomain

SpecPolicy == InitPolicy /\ [][NextPolicy]_vars

----------------------------------------------------------------------------
(* Delay settings: ScrapingService.updateSettings on minDelayMs / maxDelayMs
   and the random delay of the fetch handler *)

\* a field the request body leaves out
Undefined == 0

\* delays that pass the validation of UpdateScrapingSettingsDto
DelayInputs == {1000, 8000, 60000}

DelayDtos ==
  [minDelayMs : DelayInputs \cup {Undefined},
   maxDelayMs : DelayInputs \cup {Undefined}]

\* the guard of the swap (line 118)
NeedsSwap(dto) ==
  /\ dto.minDelayMs # Undefined
  /\ dto.maxDelayMs # Undefined
  /\ dto.minDelayMs > dto.maxDelayMs

\* the dto after the swap of lines 118-122
Swapped(dto) ==
  IF NeedsSwap(dto)
    THEN [minDelayMs |-> dto.maxDelayMs, maxDelayMs |-> dto.minDelayMs]
    ELSE dto

\* prisma upsert with update: dto (lines 124-131): the fields the dto carries
\* replace the stored ones
Upserted(row, dto) ==
  [row EXCEPT
     !.minDelayMs = IF dto.minDelayMs # Undefined THEN dto.minDelayMs ELSE @,
     !.maxDelayMs = IF dto.maxDelayMs # Undefined THEN dto.maxDelayMs ELSE @]

\* updateSettings called with delays
updateDelays(t, dto) ==
  /\ settings' = [settings EXCEPT ![t] = Upserted(@, Swapped(dto))]
  /\ settings' # settings
  /\ UNCHANGED <<opps, ledger, nextId, clock, createdLog, splits, queue,
                 nextJob, fh>>
  /\ UNCHANGED alerts
  /\ FetchUnchanged

\* values of Math.random(), in thousandths
Randoms == {0, 1, 500, 999}

\* min + Math.floor(Math.random() * (range + 1)) with range = max - min
\* (lines 182-183)
RandomDelay(row, r) ==
  LET range == row.maxDelayMs - row.minDelayMs IN
  row.minDelayMs + ((r * (range + 1)) \div 1000)

\* the handler reads the settings and computes the delay it waits
HandlerDelay(t, r) ==
  /\ probe' = [kind |-> "delay", waited |-> TRUE,
               minDelayMs |-> settings[t].minDelayMs,
               maxDelayMs |-> settings[t].maxDelayMs,
               delay |-> RandomDelay(settings[t], r)]
  /\ probe' # probe
  /\ UNCHANGED <<opps, ledger, nextId, clock, body, handlers, started,
                 createdLog, splits, queue, nextJob, fh, settings, ledgerLog,
                 direct, alerts>>

InitDelay ==
  /\ InitBase
  /\ body = [m \in Msgs |-> <<>>]
  /\ probe = [kind |-> "delay", waited |-> FALSE,
              minDelayMs |-> DefaultSettings.minDelayMs,
              maxDelayMs |-> DefaultSettings.maxDelayMs,
              delay |-> DefaultSettings.minDelayMs]

NextDelay ==
  \/ \E dto \in DelayDtos : updateDelays("t1", dto)
  \/ \E r \in Randoms : HandlerDelay("t1", r)

SpecDelay == InitDelay /\ [][NextDelay]_vars

----------------------------------------------------------------------------
(* Email parsing: ParsingService. A text is the sequence of its characters *)

Whitespace == {" ", "\n"}

\* String.prototype.trim
RECURSIVE Trim(_)
Trim(text) ==
  IF text = <<>> THEN text
  ELSE IF Head(text) \in Whitespace THEN Trim(Tail(text))
  ELSE IF text[Len(text)] \in Whitespace
    THEN Trim(SubSeq(text, 1, Len(text) - 1))
  ELSE text

\* String.prototype.toLowerCase on the letters the model uses
Lower(text) ==
  [i \in DOMAIN text |-> IF text[i] = "N" THEN "n"
                         ELSE IF text[i] = "S" THEN "s" ELSE text[i]]

\* a field the extraction did not find
Missing == <<"\\0">>

\* the values of the fingerprint fields, trimmed, lowercased, the empty ones
\* left out, joined with '|' (lines 319-325)
FingerprintValues(data, fingerprintFields) ==
  LET RECURSIVE Joined(_)
      Joined(fields) ==
        IF fields = <<>> THEN <<>>
        ELSE LET value == data[Head(fields)]
                 v == IF value # Missing THEN Lower(Trim(value)) ELSE <<>>
                 rest == Joined(Tail(fields)) IN
             IF v = <<>> THEN rest
             ELSE IF rest = <<>> THEN v ELSE v \o <<"|">> \o rest
  IN Joined(fingerprintFields)

\* generateFingerprint (lines 313-345): the text that is digested stands for
\* its sha256 digest
generateFingerprint(data, fingerprintFields, fallbackText) ==
  LET values == FingerprintValues(data, fingerprintFields) IN
  IF values = <<>> /\ fallbackText # <<>> THEN Trim(fallbackText) ELSE values

\* outputSchema.fingerprintFields of the template; description is extracted
\* and is not one of them
FingerprintFields == <<"necoSolicitationNumber", "siteLocation">>

\* the item text the fields of an item were extracted from
ItemText(data) ==
  LET Line(label, value) ==
        IF value = Missing THEN <<>> ELSE <<label, ":">> \o value \o <<"\n">>
  IN Line("S", data.necoSolicitationNumber) \o Line("L", data.siteLocation)
       \o Line("D", data.description)

ExtractedItems ==
  [necoSolicitationNumber : {Missing, <<>>, <<"N", "1">>, <<" ", "n", "1">>},
   siteLocation : {Missing, <<" ">>, <<"S">>},
   description : {<<"x">>, <<"y">>, <<"x", " ">>}]

InitFingerprint ==
  /\ InitBase
  /\ body = [m \in Msgs |-> <<>>]
  /\ \E a \in ExtractedItems, b \in ExtractedItems :
       probe = [kind |-> "fingerprint", items |-> <<a, b>>, done |-> FALSE,
                fingerprints |-> <<>>]

\* parseEmail fingerprints both items (lines 80-93)
FingerprintItems ==
  /\ probe.kind = "fingerprint"
  /\ ~probe.done
  /\ probe' = [probe EXCEPT
       !.done = TRUE,
       !.fingerprints =
          [i \in 1..2 |-> generateFingerprint(probe.items[i], FingerprintFields,
                                              ItemText(probe.items[i]))]]
  /\ UNCHANGED <<opps, ledger, nextId, clock, body, handlers, started,
                 createdLog, splits, queue, nextJob, fh, settings, ledgerLog,
                 direct, alerts>>

NextFingerprint == FingerprintItems

SpecFingerprint == InitFingerprint /\ [][NextFingerprint]_vars

\* body.split(new RegExp(`(?=${delimiter})`, 'g')) for a delimiter without
\* regular-expression operators: the body is cut before every occurrence of
\* the delimiter except one at its very start
SplitBefore(text, delimiter) ==
  LET cuts == {p \in 2..Len(text) :
                 /\ p + Len(delimiter) - 1 <= Len(text)
                 /\ SubSeq(text, p, p + Len(delimiter) - 1) = delimiter}
      starts == {1} \cup cuts
      End(p) == IF \E q \in cuts : q > p
                  THEN (CHOOSE q \in cuts : q > p /\ \A k \in cuts :
                                                      k > p => q <= k) - 1
                  ELSE Len(text)
      RECURSIVE From(_)
      From(p) == IF p > Len(text) THEN <<>>
                 ELSE <<SubSeq(text, p, End(p))>> \o From(End(p) + 1)
  IN IF text = <<>> THEN <<text>> ELSE From(1)

\* splitEmailIntoItems (lines 170-180)
splitEmailIntoItems(text, delimiter) ==
  IF delimiter = <<>> THEN <<text>>
  ELSE SelectSeq(SplitBefore(text, delimiter), LAMBDA p : Len(Trim(p)) > 0)

EmailBodies ==
  UNION {[1..n -> {"N", "x", "\n"}] : n \in 0..MaxBodyLen}

ItemDelimiters == {<<"N">>, <<"N", "x">>, <<"\n">>, <<"\n", "N">>}

InitSplit ==
  /\ InitBase
  /\ body = [m \in Msgs |-> <<>>]
  /\ \E text \in EmailBodies, delimiter \in ItemDelimiters :
       probe = [kind |-> "split", body |-> text, delimiter |-> delimiter,
                done |-> FALSE, items |-> <<>>]

\* parseEmail splits the body of a multiline template (lines 75-79)
SplitBody ==
  /\ probe.kind = "split"
  /\ ~probe.done
  /\ probe' = [probe EXCEPT
       !.done = TRUE,
       !.items = splitEmailIntoItems(probe.body, probe.delimiter)]
  /\ UNCHANGED <<opps, ledger, nextId, clock, body, handlers, started,
                 createdLog, splits, queue, nextJob, fh, settings, ledgerLog,
                 direct, alerts>>

NextSplit == SplitBody

SpecSplit == InitSplit /\ [][NextSplit]_vars

----------------------------------------------------------------------------
(* Specification: emails are parsed again while their records are fetched *)

\* the first item creates the record; the second has no solicitation number,
\* matches the record of its message and carries other values; the last
\* message cancels the solicitation
ReparseBodies ==
  { << RichItem("f1", "s1", TRUE, AllValues("a"), "7", "siteA", "future",
                "dA", "d1"),
       RichItem("f2", "", FALSE, AllValues("b"), "12", "siteB", "", "dB",
                "d2") >>,
    << RichItem("f1", "s1", TRUE, [NoValues EXCEPT !["nsn"] = "c"], "",
                "", "past", "", "d3") >>,
    << CancelItem("f2", "s1") >> }

InitReparse ==
  /\ InitEmpty
  /\ body \in [Msgs -> ReparseBodies]

\* the jobs of one tenant whose template has scraping enabled
StartHandlerReparse ==
  \E m \in Msgs : StartHandlerWith(1, "t1", m, TRUE, TRUE, FALSE)

NextReparse ==
  \/ StartHandlerReparse
  \/ HandlerStep(1)
  \/ \E j \in DOMAIN queue : FetchStart(j)
  \/ FetchStep

SpecReparse == InitReparse /\ [][NextReparse]_vars

(* Specification: emails are parsed again while the page their records are
   fetched from lists line items with a part number and a manufacturer *)

\* one-item emails: a solicitation with values in every column the scraper
\* can enrich, and a cancellation notice
RaceBodies ==
  { << RichItem("f1", "s1", TRUE, AllValues("a"), "7", "siteA", "future",
                "dA", "d1") >>,
    << CancelItem("f2", "s1") >> }

InitRace ==
  /\ InitEmpty
  /\ body \in [Msgs -> RaceBodies]

NextRace ==
  \/ StartHandlerReparse
  \/ HandlerStep(1)
  \/ \E j \in DOMAIN queue : FetchStart(j)
  \/ FetchSkipCheck
  \/ \E en \in BOOLEAN, policy \in {"enabled", "disabled", "requiresAuth"} :
       FetchAuto(en, policy)
  \/ FetchAttempt
  \/ \E resp \in BulkResponses : FetchGet(resp)
  \/ FetchChildren
  \/ FetchSplitStep
  \/ FetchChildrenDone
  \/ FetchBreaker
  \/ FetchDelay

SpecRace == InitRace /\ [][NextRace]_vars

----------------------------------------------------------------------------
(* Claims on the parse-email path *)

EmailCreations(t, f) ==
  {c \in createdLog : c.userId = t /\ c.fingerprint = f /\ c.via = "email"}

ItemFingerprints == {"f0", "f1", "f2"}

\* C1: with parse-email handlers run one at a time, interleaved with
\* softDelete and restore, at most one canonical opportunity is ever created
\* for a tenant and a fingerprint.
C1_AtMostOneCreation ==
  \A t \in Tenants, f \in ItemFingerprints :
    Cardinality(EmailCreations(t, f)) <= 1

\* a second message with a fingerprint whose record was soft-deleted has been
\* handled and rejected as a duplicate
C1_Witness ==
  \E id \in DOMAIN opps :
    /\ opps[id].deleted
    /\ handlers[1].pc = "done"
    /\ handlers[1].userId = opps[id].userId
    /\ handlers[1].msg # opps[id].emailMessageId
    /\ handlers[1].duplicates > 0

OppsWith(t, f) ==
  {id \in DOMAIN opps : opps[id].userId = t /\ opps[id].fingerprint = f}

\* C2: once two concurrent parse-email handlers of a tenant have both
\* finished, at most one canonical opportunity carries a given fingerprint
\* (the loser was rejected and left no record behind).
C2_ConcurrentAtMostOne ==
  (\A h \in Handlers : ~Running(h)) =>
    \A f \in ItemFingerprints : Cardinality(OppsWith("t1", f)) <= 1

\* the items of an email are non-blank, are no cancellation notices and have
\* pairwise distinct fingerprints
DistinctItems(items) ==
  /\ \A i \in DOMAIN items : ~items[i].blank /\ ~IsCancellation(items[i])
  /\ \A i, j \in DOMAIN items :
       i # j => items[i].fingerprint # items[j].fingerprint

\* C24: the first run of the handler (empty ledger, empty store) over an email
\* of non-blank items with pairwise distinct fingerprints creates one record
\* per item.
C24_OneRecordPerItem ==
  LET hr == handlers[1]
      items == body[hr.msg] IN
  (/\ started = 1
   /\ hr.pc = "done"
   /\ hr.idx > Len(items)
   /\ DistinctItems(items))
    => /\ hr.created = Len(items)
       /\ Cardinality({id \in DOMAIN opps :
                         opps[id].emailMessageId = hr.msg}) = Len(items)

\* C6: a fingerprint recorded for (t, f) with record id r is from then on
\* reported by checkFingerprint(t, f) as existing with record id r, whatever
\* check, checkMany, updateFingerprintAction and recordFingerprint calls
\* follow.
C6_CheckAfterRecord ==
  /\ \A k \in ledgerLog.recorded :
       /\ checkFingerprint(k[1], k[2]).exists
       /\ checkFingerprint(k[1], k[2]).opportunityId = k[3]
  /\ \A c \in ledgerLog.checks :
       \A k \in ledgerLog.recorded :
         (k[1] = c.userId /\ k[2] = c.fingerprint /\ c.result.exists)
           => c.result.opportunityId = k[3]

\* a recorded fingerprint was checked after its action was updated and after
\* another fingerprint was recorded for the same tenant
C6_Witness ==
  \E k \in ledgerLog.recorded, c \in ledgerLog.checks :
    /\ c.userId = k[1] /\ c.fingerprint = k[2]
    /\ c.result.exists /\ c.result.action # "deleted"
    /\ \E j \in ledgerLog.recorded : j[1] = k[1] /\ j[2] # k[2]

(* Claims on child splitting *)

ChildrenOf(pid) ==
  {id \in DOMAIN opps : opps[id].parentOpportunityId = pid}

\* C3: in every reachable state no two child records of one parent have the
\* same fingerprint.
C3_NoDuplicateChildren ==
  \A pid \in DOMAIN opps :
    \A c1, c2 \in ChildrenOf(pid) :
      c1 # c2 => opps[c1].fingerprint # opps[c2].fingerprint

\* a second invocation for the same parent and document raced the first and
\* was rejected while the parent has its children
C3_Witness ==
  \E r, q \in SplitIds :
    /\ r # q
    /\ splits[r].pc = "error" /\ splits[q].pc = "done"
    /\ splits[r].parentId = splits[q].parentId
    /\ splits[r].doc = splits[q].doc
    /\ splits[q].created = Cardinality(ChildrenOf(splits[q].parentId))
    /\ splits[q].created > 1

ChildrenWith(pid, fp) ==
  {id \in ChildrenOf(pid) : opps[id].fingerprint = fp}

\* C4: after a run crashed inside its loop, a later invocation with the same
\* document completes without error and leaves exactly one child per distinct
\* child fingerprint of the document.
C4_RetryAfterCrash ==
  \A r \in SplitIds :
    (splits[r].afterCrash /\ splits[r].pc \in {"done", "error"})
      => /\ splits[r].pc = "done"
         /\ \A fp \in DocFingerprints(
                         opps[splits[r].parentId].solicitationNumber,
                         splits[r].doc) :
              Cardinality(ChildrenWith(splits[r].parentId, fp)) = 1

\* C5: an invocation on a parent whose childrenCount is already positive
\* creates no child, records no fingerprint and leaves childrenCount alone.
C5_GuardedSplitWritesNothing ==
  \A r \in SplitIds :
    splits[r].invokedCount > 0 =>
      /\ splits[r].wrote = 0
      /\ splits[r].pc \in {"load", "done"}

\* an invocation with a document none of whose line items is in the ledger
\* has returned on a parent that already had children
C5_Witness ==
  \E r \in SplitIds :
    /\ splits[r].pc = "done"
    /\ splits[r].invokedCount > 0
    /\ Len(splits[r].doc) > 1
    /\ \A fp \in DocFingerprints(opps[splits[r].parentId].solicitationNumber,
                                 splits[r].doc) :
         ~checkFingerprint(opps[splits[r].parentId].userId, fp).exists

\* no split is in progress, and every run that stopped mid-loop was followed
\* by a run on the same parent that came to its end
SplitsSettled ==
  \A r \in SplitIds :
    /\ splits[r].pc \in {"idle", "done", "error", "crashed"}
    /\ splits[r].pc = "crashed" =>
         \E q \in SplitIds : /\ q > r
                             /\ splits[q].parentId = splits[r].parentId
                             /\ splits[q].doc = splits[r].doc
                             /\ splits[q].afterCrash
                             /\ splits[q].pc \in {"done", "error"}

\* C29: with no split in progress, the childrenCount of a record without
\* parent is the number of records of the store whose parent it is.
C29_ChildrenCountExact ==
  SplitsSettled =>
    \A pid \in DOMAIN opps :
      opps[pid].parentOpportunityId = NullId =>
        opps[pid].childrenCount = Cardinality(ChildrenOf(pid))

\* C18: a record that has a parent has no children of its own, its parent
\* has no parent, and a split invoked on it has written nothing.
C18_ChildrenNotSplit ==
  /\ \A id \in DOMAIN opps :
       opps[id].parentOpportunityId # NullId =>
         /\ opps[id].childrenCount = 0
         /\ ChildrenOf(id) = {}
         /\ opps[id].parentOpportunityId \in DOMAIN opps =>
              opps[opps[id].parentOpportunityId].parentOpportunityId = NullId
  /\ \A r \in SplitIds :
       (/\ splits[r].parentId \in DOMAIN opps
        /\ opps[splits[r].parentId].parentOpportunityId # NullId)
         => splits[r].wrote = 0 /\ splits[r].pc \in {"load", "done"}

\* a split of a child with a document whose line items are new has returned
C18_Witness ==
  \E r \in SplitIds :
    /\ splits[r].pc = "done"
    /\ splits[r].parentId \in DOMAIN opps
    /\ opps[splits[r].parentId].parentOpportunityId # NullId
    /\ Len(splits[r].doc) > 1
    /\ \A fp \in DocFingerprints(opps[splits[r].parentId].solicitationNumber,
                                 splits[r].doc) :
         ~checkFingerprint(opps[splits[r].parentId].userId, fp).exists

(* Claims on the update path of the parse-email handler *)

UpdatableFields ==
  {"solicitationNumber", "site", "sourceUrl", "expired", "deliveryDate",
   "extractedData"}

\* C11: the handler's update of a record whose scrapingStatus was success
\* when the handler read it leaves quantity, unit, partNumber, manufacturer,
\* description, nsn and condition as they were; only solicitationNumber,
\* site, sourceUrl, closingDate, deliveryDate and extractedData may change.
C11_ScrapedFieldsKept ==
  [][\A h \in Handlers :
       (/\ handlers[h].pc = "update"
        /\ handlers'[h] # handlers[h]
        /\ handlers[h].wasScraped
        /\ handlers[h].target \in DOMAIN opps) =>
         LET old == opps[handlers[h].target]
             new == opps'[handlers[h].target] IN
         /\ new.quantity = old.quantity
         /\ \A f \in EnrichedFields : new.enriched[f] = old.enriched[f]
         /\ \A f \in DOMAIN old \ UpdatableFields : new[f] = old[f]]_vars

\* a scraped record holding the values of the second item was updated from
\* the first item, whose values differ in every enriched column
C11_Witness ==
  \E id \in DOMAIN opps :
    /\ opps[id].scrapingStatus = "success"
    /\ handlers[1].wasScraped /\ handlers[1].updated > 0
    /\ opps[id].extractedData = "d1"
    /\ opps[id].enriched = AllValues("b")
    /\ opps[id].quantity = 12

\* C25: with no handler mid-run, a record the fetch handler scraped from the
\* page of DocD holds the part number and the manufacturer of the page.
C25_ScraperValuesSurvive ==
  ((\A h \in Handlers : ~Running(h)) /\ ~FetchRunning) =>
    \A id \in DOMAIN opps :
      (opps[id].scrapingStatus = "success"
         /\ opps[id].parentOpportunityId = NullId) =>
        /\ opps[id].enriched["partNumber"] = DocD[1].vendorPartNumber
        /\ opps[id].enriched["manufacturer"] = DocD[1].vendorCode

\* no handler is mid-run and no stalled job waits for its re-delivery
NoRunInProgress ==
  /\ \A h \in Handlers : ~Running(h)
  /\ \A r \in SplitIds : splits[r].pc \in {"idle", "done"}
  /\ ~FetchRunning

\* C26: with no handler mid-run and every stalled job delivered again and
\* processed, every record of the store has a ledger row of its tenant and
\* its fingerprint that carries its id.
C26_EveryRecordInLedger ==
  NoRunInProgress =>
    \A id \in DOMAIN opps :
      \E r \in ledger : /\ r.userId = opps[id].userId
                        /\ r.fingerprint = opps[id].fingerprint
                        /\ r.opportunityId = id

\* C27: a step of a parse-email handler run of one tenant leaves every
\* record of another tenant as it was.
C27_OtherTenantsUntouched ==
  [][\A h \in Handlers :
       handlers'[h] # handlers[h] =>
         \A id \in DOMAIN opps :
           opps[id].userId # handlers[h].userId =>
             id \in DOMAIN opps' /\ opps'[id] = opps[id]]_vars

\* C28: every step that changes the workflow status of a record takes it to
\* a status VALID_TRANSITIONS lists for the status it had.
C28_OnlyValidTransitions ==
  [][\A id \in DOMAIN opps :
       (id \in DOMAIN opps' /\ opps'[id].status # opps[id].status) =>
         opps'[id].status \in VALID_TRANSITIONS[opps[id].status]]_vars

\* C17: no step other than the explicit removals takes a ledger row away or
\* changes its fingerprint or its record id.
C17_LedgerRowsKept ==
  [][\A r \in ledger :
       \E k \in ledger' : /\ k.userId = r.userId
                          /\ k.fingerprint = r.fingerprint
                          /\ k.opportunityId = r.opportunityId
                          /\ k.createdAt = r.createdAt]_vars

----------------------------------------------------------------------------
(* Claims on email parsing *)

RECURSIVE Rejoined(_)
Rejoined(items) ==
  IF items = <<>> THEN <<>> ELSE Head(items) \o Rejoined(Tail(items))

\* C22: the fragments of a body, concatenated in order, are the body up to
\* leading and trailing whitespace.
C22_SplitThenRejoin ==
  (probe.kind = "split" /\ probe.done) =>
    Trim(Rejoined(probe.items)) = Trim(probe.body)

----------------------------------------------------------------------------
(* Claims on the domain policy *)

\* the value of each tier for a host, as a set that is empty when the tier is
\* absent: template entry, DB exact, DB parent, default exact, default parent
PolicyTiers(templateDomains, db, host) ==
  LET i == FindTemplateDomain(templateDomains, host) IN
  << IF i = 0 THEN {}
       ELSE {[enabled |-> templateDomains[i].enabled, requiresAuth |-> FALSE,
              credentials |-> FALSE]},
     IF host \in DOMAIN db THEN {db[host]} ELSE {},
     IF HasParentDomain(host) /\ ParentDomain(host) \in DOMAIN db
       THEN {db[ParentDomain(host)]} ELSE {},
     IF host \in DOMAIN defaultDomainConfigs
       THEN {defaultDomainConfigs[host]} ELSE {},
     IF /\ HasParentDomain(host)
        /\ ParentDomain(host) \in DOMAIN defaultDomainConfigs
       THEN {defaultDomainConfigs[ParentDomain(host)]} ELSE {} >>

\* C19: the resolved policy is the value of the first present tier in the
\* order template entry, DB exact host, DB parent domain, default for the host,
\* default for the parent domain; with no tier present it is disabled.
C19_FirstPresentTier ==
  (probe.kind = "policy" /\ probe.done) =>
    LET tiers == PolicyTiers(probe.templateDomains, probe.db, probe.host)
        present == {i \in DOMAIN tiers : tiers[i] # {}} IN
    IF present = {} THEN ~probe.result.enabled
    ELSE probe.result \in tiers[CHOOSE i \in present : \A k \in present : i <= k]

\* a subdomain resolved by the tenant's entry for the parent domain, against
\* the hardcoded default of a host that has one
C19_Witness ==
  /\ probe.kind = "policy"
  /\ probe.done
  /\ probe.host = <<"neco", "navy", "mil">>
  /\ FindTemplateDomain(probe.templateDomains, probe.host) = 0
  /\ probe.host \notin DOMAIN probe.db
  /\ ParentDomain(probe.host) \in DOMAIN probe.db
  /\ probe.result = probe.db[ParentDomain(probe.host)]
  /\ ~probe.result.enabled

\* C20: whatever delay settings updateSettings has stored, the delay the
\* fetch handler computes from them lies between minDelayMs and maxDelayMs.
C20_DelayWithinWindow ==
  (probe.kind = "delay" /\ probe.waited) =>
    /\ probe.minDelayMs <= probe.delay
    /\ probe.delay <= probe.maxDelayMs

----------------------------------------------------------------------------
(* Claims on the fetch pipeline *)

\* the line items of the documents of the model
LineItems == UNION {{doc[i] : i \in DOMAIN doc} : doc \in Docs}

\* C23: every child record holds the nsn, part number and manufacturer of
\* the line item it was created from (the one its fingerprint is made of).
C23_ChildKeepsLineItem ==
  \A id \in DOMAIN opps :
    opps[id].parentOpportunityId # NullId =>
      \A li \in LineItems :
        opps[id].fingerprint =
            generateChildFingerprint(opps[id].solicitationNumber, li)
          => /\ opps[id].enriched["nsn"] = li.nsn
             /\ opps[id].enriched["partNumber"] = li.vendorPartNumber
             /\ opps[id].enriched["manufacturer"] = li.vendorCode


\* the fetches of a tenant that are awaiting their response
InFlight(t) ==
  (IF fh.pc = "get" /\ fh.userId = t THEN 1 ELSE 0)
    + (IF direct.pc = "get" /\ direct.userId = t THEN 1 ELSE 0)

\* C13: a call of scrapeOpportunity never ends by propagating an exception,
\* whatever the fetch returns and whatever happens to the record meanwhile.
C13_NoEscapingException == direct.pc # "thrown"

Notifications(id) == IF id \in DOMAIN alerts THEN alerts[id] ELSE 0

\* C14: once a scrape that found the cancellation flag has returned success,
\* the record is cancelled, and however often the record is scraped exactly
\* one cancellation notification has been emitted for it.
C14_OneCancellationNotice ==
  /\ \A id \in DOMAIN opps : Notifications(id) <= 1
  /\ (/\ direct.pc = "done"
      /\ direct.status = "success"
      /\ direct.flagged
      /\ direct.oppId \in DOMAIN opps)
       => /\ opps[direct.oppId].status = "cancelada"
          /\ Notifications(direct.oppId) = 1

\* C12: at most one fetch of a tenant is in flight at any moment, whether it
\* was started by a queue job or by the scrape-one-record endpoint.
C12_OneFetchPerTenant == \A t \in Tenants : InFlight(t) <= 1

ScrapeReturned == fh.status # "none" /\ fh.fetches > 0

\* C7: when every fetch attempt of a scrapeWithRetry call failed retryably
\* under one attempt limit N, the call made exactly N fetch attempts (never
\* more while it runs) and ended with status timeout if the last attempt
\* timed out and failed otherwise, which is also the persisted status.
C7_RetriesUpToLimit ==
  \A N \in fh.limits :
    (fh.retryableOnly /\ fh.limits = {N}) =>
      /\ fh.fetches <= N
      /\ ScrapeReturned =>
           /\ fh.fetches = N
           /\ fh.status = IF fh.last = "timeout" THEN "timeout" ELSE "failed"
           /\ opps[fh.oppId].scrapingStatus = fh.status

\* a call with limit 2 or more ended after a last attempt that timed out
C7_Witness ==
  /\ ScrapeReturned
  /\ fh.retryableOnly
  /\ Cardinality(fh.limits) = 1
  /\ fh.fetches >= 2
  /\ fh.last = "timeout"
  /\ fh.status = "timeout"

\* C8: once a fetch attempt came back as HTTP 200 with an error-page
\* signature, the run makes no further fetch attempt, its status is
\* neco_error and that status is the record's scrapingStatus.
C8_ErrorPageStops ==
  fh.errorPageAt > 0 =>
    /\ fh.fetches = fh.errorPageAt
    /\ fh.status = "neco_error"
    /\ ~fh.success
    /\ opps[fh.oppId].scrapingStatus = "neco_error"

\* the error page came on a retry and the handler has finished the job
C8_Witness ==
  /\ fh.pc = "remove"
  /\ fh.errorPageAt >= 2
  /\ fh.errorPageAt < fh.maxRetries

\* C16: after a fetch attempt answered 401 or 403 the run has status blocked,
\* after one answered 404 status failed; the status is on the record and the
\* run attempts no further fetch, whatever the attempt limit.
C16_AuthAndNotFoundStop ==
  (fh.fetches > 0 /\ fh.last \in {"http401", "http403", "http404"}) =>
    /\ fh.pc \notin {"attempt", "get"}
    /\ fh.status = (IF fh.last = "http404" THEN "failed" ELSE "blocked")
    /\ ~fh.success
    /\ opps[fh.oppId].scrapingStatus = fh.status

\* a 403 and a 404 answered before the attempts were used up
C16_Witness ==
  /\ fh.fetches > 0
  /\ fh.last \in {"http403", "http404"}
  /\ fh.attempt < fh.maxRetries
  /\ fh.status \in {"blocked", "failed"}

\* C9: after the handler finished a job with result neco_error, no job of
\* that tenant that was waiting or delayed when the drain began is left in
\* the queue.
C9_DrainRemovesPending ==
  (fh.pc = "done" /\ fh.status = "neco_error") =>
    \A j \in fh.pending :
      j \in DOMAIN queue => queue[j].userId # fh.userId

\* C30: a step of the circuit breaker of a run of one tenant leaves the
\* waiting and delayed jobs of the other tenants, and the active jobs other
\* than its own, in the queue as they were.
C30_DrainSparesOtherTenants ==
  [][(fh.pc \in {"breaker", "drainWaiting", "drainDelayed", "remove"}
        /\ fh' # fh) =>
       \A j \in DOMAIN queue \ {fh.job} :
         (queue[j].userId # fh.userId \/ queue[j].state = "active") =>
           j \in DOMAIN queue' /\ queue'[j] = queue[j]]_vars

\* C10: a step of a handler run whose status is not neco_error leaves
\* every job other than the handled one as it was.
C10_NoRemovalWithoutErrorPage ==
  [][(FetchRunning /\ fh' # fh /\ fh'.status # "neco_error") =>
       \A j \in DOMAIN queue \ {fh.job} :
         j \in DOMAIN queue' /\ queue'[j] = queue[j]]_vars

\* a run ended with a terminal timeout while jobs of both kinds were pending
C10_Witness ==
  /\ fh.pc = "done"
  /\ fh.status = "timeout"
  /\ JobsIn("waiting") # {}
  /\ JobsIn("delayed") # {}

====
